---- MODULE Spec2Model ----
(***************************************************************************)
(* A model of the lab-lims data layer: the relational schema declared in   *)
(* core/models.py (tables, foreign keys with their on_delete policy,       *)
(* unique_together constraints), the read-only query manager of            *)
(* lims_utils/lims_db_manager.py, the Sample form of core/forms.py, the    *)
(* Sample and Library views of core/views.py (creation, edit, delete,      *)
(* listing and export), the database connector of                          *)
(* lims_utils/lims_io_manager.py and the configuration utility of          *)
(* lims_utils/lims_config_handler.py.                                      *)
(*                                                                         *)
(* A row is a record with an "id" and the fields the schema relates:       *)
(* every foreign key, and the data columns that take part in a constraint, *)
(* a validation or a search (label, file_path, description).  Columns that *)
(* no rule reads (notes, dates) are left out of the rows.                  *)
(***************************************************************************)
EXTENDS Integers, Sequences, FiniteSets, TLC

VARIABLES
    db,         \* the database: table name -> set of rows
    last,       \* the last write against the database and how it ended
    query,      \* the last read (query manager call, listing or export) and
                \* what it returned
    form,       \* the last Sample form submission and its validation result
    request,    \* the request the sample creation view is serving
    outbox,     \* the notification mails sent, in order
    env,        \* the process environment and the files the connector reads
    connector,  \* the LimsConnector object
    manager,    \* the DatabaseManager object
    cli         \* the last run of the configuration command-line utility

\* The objects of a web request, and those of the connection layer.
webVars == <<form, request, outbox>>
connVars == <<env, connector, manager, cli>>

vars == <<db, last, query, form, request, outbox, env, connector, manager,
         cli>>

(***************************************************************************)
(* Bounds of the model.                                                    *)
(***************************************************************************)
MaxLookupRows == 1    \* rows per referenced table: ids 1..MaxLookupRows
MaxRows == 2          \* rows per referencing table: ids 1..MaxRows
MaxUniqueRows == 3    \* rows per table that has a unique_together constraint
MaxLabelLen == 3      \* characters in a submitted label
MaxQueryId == 3       \* the query manager is asked for ids 0..MaxQueryId

\* A nullable foreign key that references nothing.  AutoField ids start at 1.
NULL == 0

(***************************************************************************)
(* The schema: core/models.py.                                             *)
(***************************************************************************)
FK(c, f, p, o, n) ==
    [child |-> c, field |-> f, parent |-> p, on_delete |-> o, null |-> n]

FlowcellFKs ==
    { FK("Flowcell", "barcode", "Barcode", "SET_NULL", TRUE) }

AnalysesFKs ==
    { FK("Analyses", "analysis_type", "AnalysisType", "SET_NULL", TRUE),
      FK("Analyses", "flowcell", "Flowcell", "CASCADE", FALSE) }

RunFKs ==
    { FK("Run", "instrument", "Instrument", "SET_NULL", TRUE),
      FK("Run", "flowcell", "Flowcell", "CASCADE", FALSE) }

LaneFKs ==
    { FK("Lane", "flowcell", "Flowcell", "CASCADE", FALSE),
      FK("Lane", "pool", "Pool", "CASCADE", FALSE),
      FK("Lane", "sequence_type", "SequenceType", "CASCADE", FALSE) }

LibraryFKs ==
    { FK("Library", "library_type", "LibraryType", "CASCADE", FALSE),
      FK("Library", "sample", "Sample", "CASCADE", FALSE),
      FK("Library", "protocol", "Protocol", "CASCADE", FALSE),
      FK("Library", "bardex", "Bardex", "CASCADE", FALSE),
      FK("Library", "second_bardex", "Bardex", "CASCADE", TRUE) }

\* Variant: the library link of a LibraryLane declared DO_NOTHING.
LibraryLaneFKs_LibraryDoNothing ==
    { FK("LibraryLane", "lane", "Lane", "CASCADE", FALSE),
      FK("LibraryLane", "library", "Library", "DO_NOTHING", FALSE) }

LibraryLaneFKs ==
    { FK("LibraryLane", "lane", "Lane", "CASCADE", FALSE),
      FK("LibraryLane", "library", "Library", "CASCADE", FALSE) }

ProjectFKs ==
    { FK("Project", "gemstone", "Gemstone", "CASCADE", FALSE) }

SampleFKs ==
    { FK("Sample", "organism", "Organism", "CASCADE", FALSE),
      FK("Sample", "project", "Project", "CASCADE", FALSE),
      FK("Sample", "sample_type", "SampleType", "CASCADE", FALSE),
      FK("Sample", "specimen_source", "SpecimenSource", "CASCADE", FALSE) }

ProtocolHasBardexFKs ==
    { FK("ProtocolHasBardex", "protocol", "Protocol", "CASCADE", FALSE),
      FK("ProtocolHasBardex", "bardex", "Bardex", "CASCADE", FALSE) }

InstrumentFKs ==
    { FK("Instrument", "instrument_type", "InstrumentType", "CASCADE", FALSE) }

ReferenceGenomeFKs ==
    { FK("ReferenceGenome", "organism", "Organism", "PROTECT", TRUE) }

CoordinateSetFKs ==
    { FK("CoordinateSet", "reference_genome", "ReferenceGenome", "PROTECT", TRUE) }

DownstreamAnalysisFileFKs ==
    { FK("DownstreamAnalysisFile", "downstream_analysis_file_type",
         "AnalysisFileType", "PROTECT", FALSE),
      FK("DownstreamAnalysisFile", "downstream_analysis",
         "DownstreamAnalysis", "CASCADE", FALSE) }

\* Variant: the sample link declared CASCADE.
DownstreamAnalysisFKs_SampleCascade ==
    { FK("DownstreamAnalysis", "downstream_analysis_type",
         "DownstreamAnalysisType", "PROTECT", FALSE),
      FK("DownstreamAnalysis", "sample", "Sample", "CASCADE", TRUE),
      FK("DownstreamAnalysis", "sequence_type", "SequenceType", "SET_NULL", TRUE),
      FK("DownstreamAnalysis", "coordinate_set", "CoordinateSet", "SET_NULL", TRUE),
      FK("DownstreamAnalysis", "reference_genome", "ReferenceGenome", "SET_NULL", TRUE) }

\* Variant: the type link declared CASCADE.
DownstreamAnalysisFKs_TypeCascade ==
    { FK("DownstreamAnalysis", "downstream_analysis_type",
         "DownstreamAnalysisType", "CASCADE", FALSE),
      FK("DownstreamAnalysis", "sample", "Sample", "SET_NULL", TRUE),
      FK("DownstreamAnalysis", "sequence_type", "SequenceType", "SET_NULL", TRUE),
      FK("DownstreamAnalysis", "coordinate_set", "CoordinateSet", "SET_NULL", TRUE),
      FK("DownstreamAnalysis", "reference_genome", "ReferenceGenome", "SET_NULL", TRUE) }

DownstreamAnalysisFKs ==
    { FK("DownstreamAnalysis", "downstream_analysis_type",
         "DownstreamAnalysisType", "PROTECT", FALSE),
      FK("DownstreamAnalysis", "sample", "Sample", "SET_NULL", TRUE),
      FK("DownstreamAnalysis", "sequence_type", "SequenceType", "SET_NULL", TRUE),
      FK("DownstreamAnalysis", "coordinate_set", "CoordinateSet", "SET_NULL", TRUE),
      FK("DownstreamAnalysis", "reference_genome", "ReferenceGenome", "SET_NULL", TRUE) }

AnalysisOutputTypeDownstreamFileTypeFKs ==
    { FK("AnalysisOutputTypeDownstreamFileType", "analysis_output_type",
         "AnalysisOutputType", "CASCADE", FALSE),
      FK("AnalysisOutputTypeDownstreamFileType", "analysis_file_type",
         "AnalysisFileType", "CASCADE", FALSE) }

\* Variant: the analysis link left to the database (DO_NOTHING).
AnalysisOutputFKs_AnalysisDoNothing ==
    { FK("AnalysisOutput", "sample", "Sample", "CASCADE", FALSE),
      FK("AnalysisOutput", "sequence_type", "SequenceType", "CASCADE", FALSE),
      FK("AnalysisOutput", "analysis_output_type", "AnalysisOutputType", "CASCADE", FALSE),
      FK("AnalysisOutput", "analysis", "DownstreamAnalysis", "DO_NOTHING", FALSE) }

\* Variant: the sample link left to the database (DO_NOTHING).
AnalysisOutputFKs_SampleDoNothing ==
    { FK("AnalysisOutput", "sample", "Sample", "DO_NOTHING", FALSE),
      FK("AnalysisOutput", "sequence_type", "SequenceType", "CASCADE", FALSE),
      FK("AnalysisOutput", "analysis_output_type", "AnalysisOutputType", "CASCADE", FALSE),
      FK("AnalysisOutput", "analysis", "DownstreamAnalysis", "CASCADE", FALSE) }

AnalysisOutputFKs ==
    { FK("AnalysisOutput", "sample", "Sample", "CASCADE", FALSE),
      FK("AnalysisOutput", "sequence_type", "SequenceType", "CASCADE", FALSE),
      FK("AnalysisOutput", "analysis_output_type", "AnalysisOutputType", "CASCADE", FALSE),
      FK("AnalysisOutput", "analysis", "DownstreamAnalysis", "CASCADE", FALSE) }

ForeignKeys ==
    FlowcellFKs \cup AnalysesFKs \cup RunFKs \cup LaneFKs \cup LibraryFKs
    \cup LibraryLaneFKs \cup ProjectFKs \cup SampleFKs \cup ProtocolHasBardexFKs
    \cup InstrumentFKs \cup ReferenceGenomeFKs \cup CoordinateSetFKs
    \cup DownstreamAnalysisFileFKs \cup DownstreamAnalysisFKs
    \cup AnalysisOutputTypeDownstreamFileTypeFKs \cup AnalysisOutputFKs

\* Tables with no foreign key of their own.
LookupTables ==
    { "LibraryType", "SampleType", "SpecimenSource", "Barcode", "Organism",
      "Gemstone", "Protocol", "Bardex", "InstrumentType", "Pool",
      "SequenceType", "AnalysisType", "AnalysisOutputType", "AnalysisFileType",
      "DownstreamAnalysisType" }

Tables == LookupTables \cup { fk.child : fk \in ForeignKeys }

\* Variant: file_path declared unique on its own.
UniqueTogether_FilePathAlone(t) ==
    CASE t = "DownstreamAnalysisFile" -> { {"file_path"} }
      [] t = "AnalysisOutputTypeDownstreamFileType" ->
             { {"analysis_output_type", "analysis_file_type"} }
      [] t = "ProtocolHasBardex" -> { {"protocol", "bardex"} }
      [] t = "AnalysisType" -> { {"label"} }
      [] t = "AnalysisOutputType" -> { {"label"} }
      [] OTHER -> {}

\* Variant: no constraint on the output-type / file-type association.
UniqueTogether_NoMappingConstraint(t) ==
    CASE t = "DownstreamAnalysisFile" -> { {"file_path", "downstream_analysis"} }
      [] t = "ProtocolHasBardex" -> { {"protocol", "bardex"} }
      [] t = "AnalysisType" -> { {"label"} }
      [] t = "AnalysisOutputType" -> { {"label"} }
      [] OTHER -> {}

\* Meta.unique_together / unique=True: per table, the sets of columns that
\* no two rows may share.
UniqueTogether(t) ==
    CASE t = "DownstreamAnalysisFile" -> { {"file_path", "downstream_analysis"} }
      [] t = "AnalysisOutputTypeDownstreamFileType" ->
             { {"analysis_output_type", "analysis_file_type"} }
      [] t = "ProtocolHasBardex" -> { {"protocol", "bardex"} }
      [] t = "AnalysisType" -> { {"label"} }
      [] t = "AnalysisOutputType" -> { {"label"} }
      [] OTHER -> {}

(***************************************************************************)
(* Rows and the operations of the ORM on them.                             *)
(***************************************************************************)
EmptyDB == [t \in Tables |-> {}]

IdsIn(d, t) == { r.id : r \in d[t] }

Ids(t) == IdsIn(db, t)

\* The choices for a nullable foreign key.
OptIds(t) == Ids(t) \cup {NULL}

\* An id the table does not use, out of a pool of cap ids.
FreeIds(t, cap) == (1..cap) \ Ids(t)

NoRow == [id |-> NULL]

\* What a write did: the operation, its target (for a create the row handed
\* in), how it ended, and the rows it deleted and the rows whose foreign key
\* it nulled, as <<table, id>> pairs.
Op(o, t, r, s, del, nul) ==
    [op |-> o, table |-> t, id |-> r.id, row |-> r, status |-> s,
     deleted |-> del, nulled |-> nul]

NoOp == Op("none", "none", NoRow, "ok", {}, {})

\* The row collides with a stored row on some unique column set.
ViolatesUnique(t, row) ==
    \E cols \in UniqueTogether(t) :
        \E r \in db[t] : r.id # row.id /\ \A c \in cols : r[c] = row[c]

\* The row has no value in a NOT NULL foreign key column, or a foreign key
\* that is the id of no stored row of the parent table.
ViolatesForeignKey(t, row) ==
    \E fk \in ForeignKeys :
        /\ fk.child = t
        /\ IF row[fk.field] = NULL THEN ~fk.null
           ELSE row[fk.field] \notin Ids(fk.parent)

\* Variant: the foreign key columns are not constrained.
Insert_NoForeignKeyCheck(t, row) ==
    IF ViolatesUnique(t, row)
    THEN /\ db' = db
         /\ last' = Op("create", t, row, "IntegrityError", {}, {})
    ELSE /\ db' = [db EXCEPT ![t] = @ \cup {row}]
         /\ last' = Op("create", t, row, "ok", {}, {})

\* Model.objects.create(...): the INSERT succeeds, or fails on a unique, NOT
\* NULL or foreign key constraint with IntegrityError and stores nothing.
Insert(t, row) ==
    IF ViolatesUnique(t, row) \/ ViolatesForeignKey(t, row)
    THEN /\ db' = db
         /\ last' = Op("create", t, row, "IntegrityError", {}, {})
    ELSE /\ db' = [db EXCEPT ![t] = @ \cup {row}]
         /\ last' = Op("create", t, row, "ok", {}, {})

\* The foreign keys by declared on_delete policy.
CascadeFKs == { k \in ForeignKeys : k.on_delete = "CASCADE" }
ProtectFKs == { k \in ForeignKeys : k.on_delete = "PROTECT" }
SetNullFKs == { k \in ForeignKeys : k.on_delete = "SET_NULL" }

\* One pass of the deletion collector over database d: S and the rows whose
\* CASCADE foreign key points at a row of S.
CascadeStep(d, S) ==
    S \cup UNION { { <<fk.child, r.id>> :
                       r \in { x \in d[fk.child] :
                                 <<fk.parent, x[fk.field]>> \in S } } :
                   fk \in CascadeFKs }

RECURSIVE Collect(_, _)
Collect(d, S) ==
    IF CascadeStep(d, S) = S THEN S ELSE Collect(d, CascadeStep(d, S))

\* Some row references a collected row through a PROTECT foreign key.
Protected(d, S) ==
    \E fk \in ProtectFKs :
        \E r \in d[fk.child] : <<fk.parent, r[fk.field]>> \in S

\* SET_NULL: the row with every SET_NULL foreign key into S nulled.
RECURSIVE NullFields(_, _, _)
NullFields(r, fks, S) ==
    IF fks = {} THEN r
    ELSE LET fk == CHOOSE k \in fks : TRUE
             r2 == IF <<fk.parent, r[fk.field]>> \in S
                   THEN [r EXCEPT ![fk.field] = NULL]
                   ELSE r
         IN NullFields(r2, fks \ {fk}, S)


\* The surviving rows that lose a reference when S is deleted.
Nulled(d, S) ==
    UNION { { <<fk.child, r.id>> :
                r \in { x \in d[fk.child] :
                          /\ <<fk.parent, x[fk.field]>> \in S
                          /\ <<fk.child, x.id>> \notin S } } :
            fk \in SetNullFKs }

\* Database d after the collected rows are deleted.
AfterDelete(d, S) ==
    [t \in Tables |->
        { NullFields(r, { k \in SetNullFKs : k.child = t }, S) :
            r \in { x \in d[t] : <<t, x.id>> \notin S } }]

\* Variant: the rows collected through the cascade are deleted before the
\* protected reference is reported.
DeleteRow_CascadeThenRaise(t, i) ==
    LET S == Collect(db, {<<t, i>>})
    IN IF Protected(db, S)
       THEN /\ db' = AfterDelete(db, S \ {<<t, i>>})
            /\ last' = Op("delete", t, [id |-> i], "ProtectedError", {}, {})
       ELSE /\ db' = AfterDelete(db, S)
            /\ last' = Op("delete", t, [id |-> i], "ok", S, Nulled(db, S))

\* Model.delete(): collect the cascade, fail with ProtectedError and change
\* nothing if a protected reference is met, else null and delete, all in one
\* transaction.
DeleteRow(t, i) ==
    LET S == Collect(db, {<<t, i>>})
    IN IF Protected(db, S)
       THEN /\ db' = db
            /\ last' = Op("delete", t, [id |-> i], "ProtectedError", {}, {})
       ELSE /\ db' = AfterDelete(db, S)
            /\ last' = Op("delete", t, [id |-> i], "ok", S, Nulled(db, S))

(***************************************************************************)
(* Row creation, one action per model class.  cap is the size of the id    *)
(* pool of the table; a mandatory foreign key is drawn from the rows that  *)
(* exist (the database rejects a dangling reference), a nullable one may   *)
(* also be NULL.                                                           *)
(***************************************************************************)
TypeLabels == {"x", "y"}
FilePaths == {"/p", "/q"}

CreateLookup(t, cap) ==
    /\ \E i \in FreeIds(t, cap) : Insert(t, [id |-> i])
    /\ UNCHANGED <<query, webVars, connVars>>

CreateOrganism(cap) == CreateLookup("Organism", cap)
CreateGemstone(cap) == CreateLookup("Gemstone", cap)
CreateSampleType(cap) == CreateLookup("SampleType", cap)
CreateSpecimenSource(cap) == CreateLookup("SpecimenSource", cap)
CreateSequenceType(cap) == CreateLookup("SequenceType", cap)
CreateAnalysisFileType(cap) == CreateLookup("AnalysisFileType", cap)
CreateDownstreamAnalysisType(cap) == CreateLookup("DownstreamAnalysisType", cap)

CreateLabelled(t, cap) ==
    /\ \E i \in FreeIds(t, cap), l \in TypeLabels :
           Insert(t, [id |-> i, label |-> l])
    /\ UNCHANGED <<query, webVars, connVars>>

CreateAnalysisType(cap) == CreateLabelled("AnalysisType", cap)
CreateAnalysisOutputType(cap) == CreateLabelled("AnalysisOutputType", cap)

CreateProject(cap) ==
    /\ \E i \in FreeIds("Project", cap), g \in Ids("Gemstone") :
           Insert("Project", [id |-> i, gemstone |-> g])
    /\ UNCHANGED <<query, webVars, connVars>>

CreateReferenceGenome(cap) ==
    /\ \E i \in FreeIds("ReferenceGenome", cap), o \in OptIds("Organism") :
           Insert("ReferenceGenome", [id |-> i, organism |-> o])
    /\ UNCHANGED <<query, webVars, connVars>>

CreateCoordinateSet(cap) ==
    /\ \E i \in FreeIds("CoordinateSet", cap), g \in OptIds("ReferenceGenome") :
           Insert("CoordinateSet", [id |-> i, reference_genome |-> g])
    /\ UNCHANGED <<query, webVars, connVars>>

\* Sample.objects.create(...), as the tests and the admin site do: no form
\* validation is involved.
CreateSample(cap, labels) ==
    /\ \E i \in FreeIds("Sample", cap), l \in labels,
          o \in Ids("Organism"), p \in Ids("Project"),
          st \in Ids("SampleType"), ss \in Ids("SpecimenSource") :
           Insert("Sample", [id |-> i, label |-> l, organism |-> o, project |-> p,
                             sample_type |-> st, specimen_source |-> ss])
    /\ UNCHANGED <<query, webVars, connVars>>

CreateDownstreamAnalysis(cap) ==
    /\ \E i \in FreeIds("DownstreamAnalysis", cap), l \in {"analysis"},
          ty \in Ids("DownstreamAnalysisType"), s \in OptIds("Sample"),
          sq \in OptIds("SequenceType"), cs \in OptIds("CoordinateSet"),
          rg \in OptIds("ReferenceGenome") :
           Insert("DownstreamAnalysis",
                  [id |-> i, label |-> l, downstream_analysis_type |-> ty,
                   sample |-> s, sequence_type |-> sq, coordinate_set |-> cs,
                   reference_genome |-> rg])
    /\ UNCHANGED <<query, webVars, connVars>>

CreateDownstreamAnalysisFile(cap) ==
    /\ \E i \in FreeIds("DownstreamAnalysisFile", cap), p \in FilePaths,
          ft \in Ids("AnalysisFileType"), a \in Ids("DownstreamAnalysis") :
           Insert("DownstreamAnalysisFile",
                  [id |-> i, file_path |-> p, downstream_analysis_file_type |-> ft,
                   downstream_analysis |-> a])
    /\ UNCHANGED <<query, webVars, connVars>>

CreateAnalysisOutputTypeDownstreamFileType(cap) ==
    /\ \E i \in FreeIds("AnalysisOutputTypeDownstreamFileType", cap),
          ot \in Ids("AnalysisOutputType"), ft \in Ids("AnalysisFileType") :
           Insert("AnalysisOutputTypeDownstreamFileType",
                  [id |-> i, analysis_output_type |-> ot, analysis_file_type |-> ft])
    /\ UNCHANGED <<query, webVars, connVars>>

CreateAnalysisOutput(cap) ==
    /\ \E i \in FreeIds("AnalysisOutput", cap), s \in Ids("Sample"),
          sq \in Ids("SequenceType"), ot \in Ids("AnalysisOutputType"),
          a \in Ids("DownstreamAnalysis") :
           Insert("AnalysisOutput",
                  [id |-> i, sample |-> s, sequence_type |-> sq,
                   analysis_output_type |-> ot, analysis |-> a])
    /\ UNCHANGED <<query, webVars, connVars>>

\* obj.delete() on any stored row (SampleDeleteView, LibraryDeleteView, the
\* admin site, the ORM).
Delete ==
    /\ \E t \in Tables : \E i \in Ids(t) : DeleteRow(t, i)
    /\ UNCHANGED <<query, webVars, connVars>>

(***************************************************************************)
(* The downstream-analysis part of the schema, from an empty database.     *)
(***************************************************************************)
\* A call of the query manager: the method kind, the entity table, the
\* arguments, and the outcome (status "ok" with the rows returned, or the
\* exception raised).
Call(o, t, i, p, tol, res) ==
    [op |-> o, table |-> t, id |-> i, path |-> p, tolerant |-> tol,
     status |-> res.status, rows |-> res.rows, session |-> NULL]

Returned(rows) == [status |-> "ok", rows |-> rows]
Raised(e) == [status |-> e, rows |-> {}]

NoQuery == Call("none", "none", NULL, "", FALSE, Returned({}))

NoForm == [bound |-> FALSE, data |-> <<>>, instance |-> NULL, cleaned |-> <<>>,
           errors |-> {}]

\* No request is being served.  A request records where the view is (pc),
\* the id of the Sample it saved, the number of send_mail calls it made,
\* whether one of them raised, and the response it returned.
NoRequest == [pc |-> "idle", method |-> "none", sample |-> NULL,
              attempts |-> 0, raised |-> FALSE, response |-> "none"]

\* The process environment and the files on disk: the three variables the
\* connector reads ("unset" when not in the environment), the variable
\* ENVIRONMENT that only the command-line utility writes, the paths at which
\* a YAML configuration file exists, the sections of that file, the keys
\* each section gives a value, and the state of the file that sslca names
\* ("missing", "empty" or "pem").
Env(le, cf, dyp, files, sections, keys, sslca) ==
    [LIMS_ENVIRONMENT |-> le, CONFIG_FILE |-> cf, DATABASE_YML_PATH |-> dyp,
     ENVIRONMENT |-> "unset", files |-> files, sections |-> sections, keys |-> keys, sslca |-> sslca]

\* Nothing set in the environment, no file to read.
NoEnv == Env("unset", "unset", "unset", {}, {}, {}, "missing")

NoEngine == [id |-> NULL, ssl |-> FALSE]
NoSession == [id |-> NULL, engine |-> NULL]
NoCall == [op |-> "none", status |-> "ok", arg |-> "none", session |-> NoSession]

\* No LimsConnector and no DatabaseManager constructed.
NoConnector ==
    [constructed |-> FALSE, environment |-> "none", config_file_path |-> "none",
     engine |-> NoEngine, cert_read |-> FALSE, sessions |-> 0, call |-> NoCall]

\* The command-line utility has not run.
NoCli == [op |-> "none", config_file |-> "", environment |-> "", wrote |-> FALSE,
          config |-> [config_file |-> "unset", environment |-> "unset"]]

NoManager ==
    [constructed |-> FALSE, engine |-> NoEngine, session |-> NoSession,
     status |-> "none"]

\* The objects outside the database, before any of them is used.
Untouched ==
    /\ request = NoRequest
    /\ outbox = <<>>
    /\ env = NoEnv
    /\ connector = NoConnector
    /\ manager = NoManager
    /\ cli = NoCli

Init ==
    /\ db = EmptyDB
    /\ last = NoOp
    /\ query = NoQuery
    /\ form = NoForm
    /\ Untouched

NextDownstream ==
    \/ CreateOrganism(MaxLookupRows)
    \/ CreateGemstone(MaxLookupRows)
    \/ CreateProject(MaxLookupRows)
    \/ CreateSampleType(MaxLookupRows)
    \/ CreateSpecimenSource(MaxLookupRows)
    \/ CreateSample(MaxLookupRows, {<<"s">>})
    \/ CreateSequenceType(MaxLookupRows)
    \/ CreateAnalysisOutputType(MaxLookupRows)
    \/ CreateDownstreamAnalysisType(MaxLookupRows)
    \/ CreateDownstreamAnalysis(MaxRows)
    \/ CreateAnalysisOutput(MaxRows)
    \/ Delete

SpecDownstream == Init /\ [][NextDownstream]_vars

(***************************************************************************)
(* Deletion policies of the downstream-analysis tables (SpecDownstream).   *)
(***************************************************************************)

\* C6: a step that deletes DownstreamAnalysis rows deletes exactly the
\* AnalysisOutput rows whose analysis is one of them: every output of a
\* deleted analysis goes, every output of another analysis stays, and no
\* output is left that references a deleted analysis.
C6_DeleteAnalysisCascadesToOutputs ==
    [][ LET gone == Ids("DownstreamAnalysis") \ IdsIn(db', "DownstreamAnalysis")
        IN gone # {} =>
             /\ db'["AnalysisOutput"] =
                    { o \in db["AnalysisOutput"] : o.analysis \notin gone }
             /\ \A o \in db'["AnalysisOutput"] : o.analysis \notin gone ]_vars

\* C6 witness: a DownstreamAnalysis was deleted, the delete took at least one
\* AnalysisOutput with it, and an output of another analysis is still stored.
C6_Witness ==
    /\ last.op = "delete" /\ last.table = "DownstreamAnalysis" /\ last.status = "ok"
    /\ \E p \in last.deleted : p[1] = "AnalysisOutput"
    /\ \E o \in db["AnalysisOutput"] : o.analysis # last.id

\* C7: when a Sample row goes, every DownstreamAnalysis that referenced it is
\* still stored, with sample NULL and every other field as it was.
C7_DeleteSampleNullsAnalysisLink ==
    [][ \A s \in Ids("Sample") \ IdsIn(db', "Sample") :
          \A a \in db["DownstreamAnalysis"] :
             a.sample = s =>
                [a EXCEPT !.sample = NULL] \in db'["DownstreamAnalysis"] ]_vars

\* C7 witness: a Sample was deleted through its delete view and an analysis
\* that referenced it is stored with a NULL sample and its other links set.
C7_Witness ==
    /\ last.op = "delete" /\ last.table = "Sample" /\ last.status = "ok"
    /\ \E a \in db["DownstreamAnalysis"] :
          /\ <<"DownstreamAnalysis", a.id>> \in last.nulled
          /\ a.sample = NULL
          /\ a.sequence_type # NULL
          /\ a.downstream_analysis_type \in Ids("DownstreamAnalysisType")

\* C8: a DownstreamAnalysisType that some DownstreamAnalysis references is not
\* removed by any step, and after every step each DownstreamAnalysis row
\* references a stored DownstreamAnalysisType.
C8_AnalysisNeverOutlivesType ==
    [][ /\ \A ty \in db["DownstreamAnalysisType"] :
              (\E a \in db["DownstreamAnalysis"] :
                    a.downstream_analysis_type = ty.id)
              => ty \in db'["DownstreamAnalysisType"]
        /\ \A a \in db'["DownstreamAnalysis"] :
              a.downstream_analysis_type \in IdsIn(db', "DownstreamAnalysisType")
      ]_vars

\* C8 witness: the delete of a referenced DownstreamAnalysisType was refused.
C8_Witness ==
    /\ last.op = "delete" /\ last.table = "DownstreamAnalysisType"
    /\ last.status = "ProtectedError"
    /\ \E a \in db["DownstreamAnalysis"] : a.downstream_analysis_type = last.id

\* The referencing rows of a foreign key whose referenced row goes in a step.
Orphaned(fk) ==
    { c \in db[fk.child] :
        c[fk.field] \in Ids(fk.parent) \ IdsIn(db', fk.parent) }

C9_KeptLinks ==
    { <<"DownstreamAnalysis", "sample">>,
      <<"DownstreamAnalysis", "sequence_type">>,
      <<"DownstreamAnalysis", "coordinate_set">>,
      <<"DownstreamAnalysis", "reference_genome">>,
      <<"Flowcell", "barcode">>,
      <<"Analyses", "analysis_type">>,
      <<"Run", "instrument">>,
      <<"DownstreamAnalysis", "downstream_analysis_type">>,
      <<"DownstreamAnalysisFile", "downstream_analysis_file_type">>,
      <<"ReferenceGenome", "organism">>,
      <<"CoordinateSet", "reference_genome">> }

NextFiles ==
    \/ CreateDownstreamAnalysisType(MaxLookupRows)
    \/ CreateAnalysisFileType(MaxLookupRows)
    \/ CreateDownstreamAnalysis(MaxRows)
    \/ CreateDownstreamAnalysisFile(MaxUniqueRows)
    \/ Delete

SpecFiles == Init /\ [][NextFiles]_vars

NextMapping ==
    \/ CreateAnalysisOutputType(MaxRows)
    \/ CreateAnalysisFileType(MaxRows)
    \/ CreateAnalysisOutputTypeDownstreamFileType(MaxUniqueRows)
    \/ Delete

SpecMapping == Init /\ [][NextMapping]_vars

\* Two rows of table t agree on every column of cols.
SameOn(cols, r1, r2) == \A c \in cols : r1[c] = r2[c]

\* C4: after every step no two DownstreamAnalysisFile rows share
\* (file_path, downstream_analysis); a create whose pair is already stored
\* fails and changes nothing; a create whose pair is new (the same file_path
\* under another analysis included) succeeds and stores the row.
C4_UniqueFilePerAnalysis ==
    [][ LET cols == {"file_path", "downstream_analysis"}
            t == "DownstreamAnalysisFile"
        IN /\ \A r1, r2 \in db'[t] : SameOn(cols, r1, r2) => r1 = r2
           /\ (last' # last /\ last'.op = "create" /\ last'.table = t) =>
                 IF \E r \in db[t] : SameOn(cols, r, last'.row)
                 THEN last'.status = "IntegrityError" /\ db' = db
                 ELSE last'.status = "ok" /\ last'.row \in db'[t] ]_vars

\* C4 witness: a duplicate pair was refused while the same file_path is
\* stored under two different analyses.
C4_Witness ==
    /\ last.op = "create" /\ last.table = "DownstreamAnalysisFile"
    /\ last.status = "IntegrityError"
    /\ \E r \in db["DownstreamAnalysisFile"] :
          SameOn({"file_path", "downstream_analysis"}, r, last.row)
    /\ \E r1, r2 \in db["DownstreamAnalysisFile"] :
          r1.file_path = r2.file_path
          /\ r1.downstream_analysis # r2.downstream_analysis

\* C5: after every step no two AnalysisOutputTypeDownstreamFileType rows share
\* (analysis_output_type, analysis_file_type); a create whose pair is already
\* stored fails and changes nothing, and a create whose pair is new succeeds.
C5_UniqueFileTypePerOutputType ==
    [][ LET cols == {"analysis_output_type", "analysis_file_type"}
            t == "AnalysisOutputTypeDownstreamFileType"
        IN /\ \A r1, r2 \in db'[t] : SameOn(cols, r1, r2) => r1 = r2
           /\ (last' # last /\ last'.op = "create" /\ last'.table = t) =>
                 IF \E r \in db[t] : SameOn(cols, r, last'.row)
                 THEN last'.status = "IntegrityError" /\ db' = db
                 ELSE last'.status = "ok" /\ last'.row \in db'[t] ]_vars

\* C5 witness: a duplicate association was refused while the same file type
\* is associated with another output type.
C5_Witness ==
    /\ last.op = "create" /\ last.table = "AnalysisOutputTypeDownstreamFileType"
    /\ last.status = "IntegrityError"
    /\ \E r \in db["AnalysisOutputTypeDownstreamFileType"] :
          SameOn({"analysis_output_type", "analysis_file_type"}, r, last.row)
    /\ \E r1, r2 \in db["AnalysisOutputTypeDownstreamFileType"] :
          r1.analysis_file_type = r2.analysis_file_type
          /\ r1.analysis_output_type # r2.analysis_output_type

(***************************************************************************)
(* The query manager: lims_utils/lims_db_manager.py.                       *)
(***************************************************************************)

\* Variant: the empty result is returned whatever tolerant is.
query_all_AlwaysTolerant(t, tolerant) ==
    LET rows == db[t]
    IN IF rows # {} THEN Returned(rows) ELSE Returned({})

\* query_all_<entity>(tolerant): session.query(T).all(), then the rows if
\* there are any, [] if tolerant, else NoResultFound.
query_all(t, tolerant) ==
    LET rows == db[t]
    IN IF rows # {} THEN Returned(rows)
       ELSE IF tolerant THEN Returned({})
       ELSE Raised("NoResultFound")

\* Variant: a missing row is reported as an empty result.
query_by_id_NoneOnMiss(t, i) ==
    LET found == { r \in db[t] : r.id = i }
    IN IF found # {} THEN Returned({CHOOSE r \in found : TRUE})
       ELSE Returned({})

\* query_<entity>_by_id(id): filter(T.id == id).first(), then the row if
\* there is one, else NoResultFound.
query_by_id(t, i) ==
    LET found == { r \in db[t] : r.id = i }
    IN IF found # {} THEN Returned({CHOOSE r \in found : TRUE})
       ELSE Raised("NoResultFound")

\* with self.session as session: the call runs on the session the manager
\* got when it was constructed.
WithSession(call) == [call EXCEPT !.session = manager.session.id]

QueryAll(t) ==
    /\ manager.constructed
    /\ \E tolerant \in BOOLEAN :
          query' = WithSession(Call("list_all", t, NULL, "", tolerant,
                                    query_all(t, tolerant)))
    /\ UNCHANGED <<db, last, webVars, connVars>>

\* Variant: the lookup also deletes the row it found.
QueryById_Deleting(t) ==
    /\ manager.constructed
    /\ \E i \in 0..MaxQueryId :
          /\ query' = WithSession(Call("get_by_id", t, i, "", FALSE,
                                       query_by_id(t, i)))
          /\ db' = [db EXCEPT ![t] = { r \in @ : r.id # i }]
    /\ UNCHANGED <<last, webVars, connVars>>

QueryById(t) ==
    /\ manager.constructed
    /\ \E i \in 0..MaxQueryId :
          query' = WithSession(Call("get_by_id", t, i, "", FALSE,
                                    query_by_id(t, i)))
    /\ UNCHANGED <<db, last, webVars, connVars>>

query_all_samples == QueryAll("Sample")
query_sample_by_id == QueryById("Sample")
query_all_sequence_types == QueryAll("SequenceType")
query_sequence_type_by_id == QueryById("SequenceType")
query_all_reference_genomes == QueryAll("ReferenceGenome")
query_reference_genome_by_id == QueryById("ReferenceGenome")
query_all_analysis_types == QueryAll("AnalysisType")
query_analysis_type_by_id == QueryById("AnalysisType")
query_all_analysis_output_types == QueryAll("AnalysisOutputType")
query_analysis_output_type_by_id == QueryById("AnalysisOutputType")
query_all_analysis_file_types == QueryAll("AnalysisFileType")
query_analysis_file_type_by_id == QueryById("AnalysisFileType")
query_all_downstream_analysis_files == QueryAll("DownstreamAnalysisFile")
query_downstream_analysis_files_by_id == QueryById("DownstreamAnalysisFile")

\* filter(file_path == path).first(): file_path alone is not unique, and
\* first() without an ORDER BY returns any one of the matching rows.
query_downstream_analysis_files_by_path ==
    /\ manager.constructed
    /\ \E p \in FilePaths :
          LET found == { r \in db["DownstreamAnalysisFile"] : r.file_path = p }
          IN IF found # {}
             THEN \E r \in found :
                     query' = WithSession(Call("get_by_path", "DownstreamAnalysisFile",
                                               NULL, p, FALSE, Returned({r})))
             ELSE query' = WithSession(Call("get_by_path", "DownstreamAnalysisFile",
                                            NULL, p, FALSE, Raised("NoResultFound")))
    /\ UNCHANGED <<db, last, webVars, connVars>>

query_all_downstream_analysis == QueryAll("DownstreamAnalysis")
query_downstream_analysis_by_id == QueryById("DownstreamAnalysis")
query_all_coordinate_sets == QueryAll("CoordinateSet")
query_coordinate_set_by_id == QueryById("CoordinateSet")
query_all_downstream_analysis_types == QueryAll("DownstreamAnalysisType")
query_downstream_analysis_type_by_id == QueryById("DownstreamAnalysisType")
query_all_analysis_outputs == QueryAll("AnalysisOutput")
query_analysis_output_by_id == QueryById("AnalysisOutput")

\* The entity types the query manager serves.
QueryEntities ==
    { "Sample", "SequenceType", "ReferenceGenome", "AnalysisType",
      "AnalysisOutputType", "AnalysisFileType", "DownstreamAnalysisFile",
      "DownstreamAnalysis", "CoordinateSet", "DownstreamAnalysisType",
      "AnalysisOutput" }

\* A populated database, in the shape of the fixture of the model tests:
\* MaxRows rows in each table the manager serves, over one row of each table
\* they depend on.  Row 1 of a table has its nullable links set, the other
\* rows have them NULL.
Link(i) == IF i = 1 THEN 1 ELSE NULL

PopulatedDB ==
    [t \in Tables |->
       CASE t \in {"Organism", "Gemstone", "SampleType", "SpecimenSource"} ->
              { [id |-> 1] }
         [] t = "Project" -> { [id |-> 1, gemstone |-> 1] }
         [] t = "Sample" ->
              { [id |-> i, label |-> <<"s">>, organism |-> 1, project |-> 1,
                 sample_type |-> 1, specimen_source |-> 1] : i \in 1..MaxRows }
         [] t \in {"SequenceType", "AnalysisFileType", "DownstreamAnalysisType"} ->
              { [id |-> i] : i \in 1..MaxRows }
         [] t \in {"AnalysisType", "AnalysisOutputType"} ->
              { [id |-> 1, label |-> "x"], [id |-> 2, label |-> "y"] }
         [] t = "ReferenceGenome" ->
              { [id |-> i, organism |-> Link(i)] : i \in 1..MaxRows }
         [] t = "CoordinateSet" ->
              { [id |-> i, reference_genome |-> Link(i)] : i \in 1..MaxRows }
         [] t = "DownstreamAnalysis" ->
              { [id |-> i, label |-> "analysis", downstream_analysis_type |-> i,
                 sample |-> Link(i), sequence_type |-> Link(i),
                 coordinate_set |-> Link(i), reference_genome |-> Link(i)] :
                i \in 1..MaxRows }
         [] t = "DownstreamAnalysisFile" ->
              { [id |-> i, file_path |-> "/p", downstream_analysis_file_type |-> 1,
                 downstream_analysis |-> i] : i \in 1..MaxRows }
         [] t = "AnalysisOutput" ->
              { [id |-> i, sample |-> i, sequence_type |-> i,
                 analysis_output_type |-> 1, analysis |-> i] : i \in 1..MaxRows }
         [] OTHER -> {}]

\* Database d with row <<t, i>> deleted under the declared policies (d itself
\* if the delete is refused).
Without(d, t, i) ==
    LET S == Collect(d, {<<t, i>>})
    IN IF Protected(d, S) THEN d ELSE AfterDelete(d, S)

\* The databases the query manager is run against: the empty one, the
\* populated one, and the populated one after the deletion of any one row.
QueryDatabases ==
    { EmptyDB, PopulatedDB }
    \cup UNION { { Without(PopulatedDB, t, r.id) : r \in PopulatedDB[t] } :
                 t \in Tables }

\* A DatabaseManager whose constructor succeeded: the engine built by
\* initiate_db and the session got from get_session.
ReadyManager(engine) ==
    [constructed |-> TRUE, engine |-> engine,
     session |-> [id |-> 1, engine |-> engine.id], status |-> "ok"]

InitQuery ==
    /\ db \in QueryDatabases
    /\ last = NoOp
    /\ query = NoQuery
    /\ form = NoForm
    /\ request = NoRequest
    /\ outbox = <<>>
    /\ env = NoEnv
    /\ connector = NoConnector
    /\ manager = ReadyManager([id |-> 1, ssl |-> TRUE])
    /\ cli = NoCli

NextQuery ==
    \/ query_all_samples
    \/ query_sample_by_id
    \/ query_all_sequence_types
    \/ query_sequence_type_by_id
    \/ query_all_reference_genomes
    \/ query_reference_genome_by_id
    \/ query_all_analysis_types
    \/ query_analysis_type_by_id
    \/ query_all_analysis_output_types
    \/ query_analysis_output_type_by_id
    \/ query_all_analysis_file_types
    \/ query_analysis_file_type_by_id
    \/ query_all_downstream_analysis_files
    \/ query_downstream_analysis_files_by_id
    \/ query_downstream_analysis_files_by_path
    \/ query_all_downstream_analysis
    \/ query_downstream_analysis_by_id
    \/ query_all_coordinate_sets
    \/ query_coordinate_set_by_id
    \/ query_all_downstream_analysis_types
    \/ query_downstream_analysis_type_by_id
    \/ query_all_analysis_outputs
    \/ query_analysis_output_by_id

SpecQuery == InitQuery /\ [][NextQuery]_vars

\* Every foreign key of d references a stored row or is NULL where allowed,
\* and no unique column set is shared by two rows.
ConsistentDB(d) ==
    /\ \A fk \in ForeignKeys : \A r \in d[fk.child] :
          \/ r[fk.field] \in IdsIn(d, fk.parent)
          \/ fk.null /\ r[fk.field] = NULL
    /\ \A t \in Tables : \A cols \in UniqueTogether(t) :
          \A r1, r2 \in d[t] : (\A c \in cols : r1[c] = r2[c]) => r1 = r2
    /\ \A t \in Tables : \A r1, r2 \in d[t] : r1.id = r2.id => r1 = r2

\* C1: a list_all call on a non-empty table returns exactly the stored rows of
\* that table, for either value of tolerant; on an empty table it returns the
\* empty result if tolerant and raises NoResultFound if not.
C1_ListAll ==
    (query.op = "list_all" /\ query.table \in QueryEntities) =>
        IF db[query.table] # {}
        THEN query.status = "ok" /\ query.rows = db[query.table]
        ELSE IF query.tolerant
             THEN query.status = "ok" /\ query.rows = {}
             ELSE query.status = "NoResultFound"

\* C1 witness: an intolerant listing of an empty table raised NoResultFound
\* in a database that has rows in other tables.
C1_Witness ==
    /\ query.op = "list_all" /\ ~query.tolerant
    /\ db[query.table] = {} /\ db["SequenceType"] # {}
    /\ query.status = "NoResultFound"

\* C2: a get_by_id call returns the one stored row with that primary key, or
\* raises NoResultFound when the table has no such row; the lookup has no
\* tolerant mode, and NoResultFound is the only error status of any call.
C2_GetById ==
    /\ query.status \in {"ok", "NoResultFound"}
    /\ (query.op = "get_by_id" /\ query.table \in QueryEntities) =>
          /\ ~query.tolerant
          /\ IF query.id \in Ids(query.table)
             THEN /\ query.status = "ok"
                  /\ query.rows = { r \in db[query.table] : r.id = query.id }
                  /\ Cardinality(query.rows) = 1
             ELSE query.status = "NoResultFound" /\ query.rows = {}

\* C2 witness: a lookup of an id that a populated table does not hold raised
\* NoResultFound.
C2_Witness ==
    /\ query.op = "get_by_id" /\ query.status = "NoResultFound"
    /\ db[query.table] # {} /\ query.id \notin Ids(query.table)

\* C3: no call of the query manager changes the database.
C3_ReadOnly == [][db' = db]_vars

\* C3 witness: a call failed with NoResultFound against a populated database.
C3_Witness ==
    /\ query.op \in {"list_all", "get_by_id"} /\ query.status = "NoResultFound"
    /\ db # EmptyDB

\* The populated database and its one-deletion variants respect the schema.
QueryDatabasesConsistent == ConsistentDB(db)

(***************************************************************************)
(* The Sample form: core/forms.py.  A label is a sequence of characters;   *)
(* the characters of the model stand for the classes the validation tells  *)
(* apart: ASCII letters, an ASCII digit, underscore, hyphen, a letter and  *)
(* a digit outside ASCII, whitespace, and punctuation.                     *)
(***************************************************************************)
AsciiWordChars == {"a", "A", "7", "_"}

\* What \w matches in a str pattern: the alphanumerics of any script and
\* underscore.
WordChars == AsciiWordChars \cup {"U+00E9", "U+0663"}

Whitespace == {" ", "\n"}

Alphabet == WordChars \cup Whitespace \cup {"-", "!"}

\* The strings of at most n characters.
Labels(n) == UNION { [1..k -> Alphabet] : k \in 0..n }

\* Sample.label: CharField(max_length=100).
max_length == 100

RECURSIVE lstrip(_)
lstrip(s) == IF s # <<>> /\ Head(s) \in Whitespace THEN lstrip(Tail(s)) ELSE s

RECURSIVE rstrip(_)
rstrip(s) ==
    IF s # <<>> /\ s[Len(s)] \in Whitespace
    THEN rstrip(SubSeq(s, 1, Len(s) - 1))
    ELSE s

\* str.strip(), which the form's CharField applies to the submitted text.
strip(s) == rstrip(lstrip(s))

\* One or more characters, each matched by [\w-].
WordRun(s) == s # <<>> /\ \A i \in 1..Len(s) : s[i] \in WordChars \cup {"-"}

\* Variant: the pattern without its end anchor, '^[\w-]+'.
re_match_label_Unanchored(s) ==
    \E n \in 1..Len(s) : WordRun(SubSeq(s, 1, n))

\* re.match(r'^[\w-]+$', s): $ matches at the end of the string and also
\* just before a newline that ends the string.
re_match_label(s) ==
    \/ WordRun(s)
    \/ /\ s # <<>>
       /\ s[Len(s)] = "\n"
       /\ WordRun(SubSeq(s, 1, Len(s) - 1))

Valid(v) == [ok |-> TRUE, value |-> v, code |-> "none"]
Invalid(c) == [ok |-> FALSE, value |-> <<>>, code |-> c]

\* How the database compares a stored label with the one looked up by
\* filter(label=label): character by character, letter case included.
exact(stored, label) == stored = label

\* Variant: the uniqueness check does not leave out the record being edited.
clean_label_NoSelfExclusion(label, pk) ==
    IF ~re_match_label(label) THEN Invalid("invalid_label")
    ELSE IF \E r \in db["Sample"] : exact(r.label, label)
         THEN Invalid("label_exists")
         ELSE Valid(label)

\* SampleForm.clean_label, for the form of instance pk (NULL when creating).
clean_label(label, pk) ==
    IF ~re_match_label(label) THEN Invalid("invalid_label")
    ELSE IF \E r \in db["Sample"] :
               exact(r.label, label) /\ (pk = NULL \/ r.id # pk)
         THEN Invalid("label_exists")
         ELSE Valid(label)

\* The label field of the form: CharField.clean (strip, required,
\* max_length), then clean_label on the value that passed.
label_field(raw, pk) ==
    LET v == strip(raw)
    IN IF v = <<>> THEN Invalid("required")
       ELSE IF Len(v) > max_length THEN Invalid("max_length")
       ELSE clean_label(v, pk)

\* A required ModelChoiceField over table t: the submitted key must be there
\* and must be the id of a stored row.
choice_field(t, key) ==
    IF key = NULL THEN Invalid("required")
    ELSE IF key \notin Ids(t) THEN Invalid("invalid_choice")
    ELSE Valid(key)

\* SampleForm.clean: the first missing one of project and organism is a
\* form-level error.
clean(project, organism) ==
    IF ~project.ok THEN {<<"__all__", "select_project">>}
    ELSE IF ~organism.ok THEN {<<"__all__", "select_organism">>}
    ELSE {}

FieldError(name, res) == IF res.ok THEN {} ELSE {<<name, res.code>>}

\* form.errors after full_clean of the submitted data.
form_errors(data, pk) ==
    LET label == label_field(data.label, pk)
        organism == choice_field("Organism", data.organism)
        project == choice_field("Project", data.project)
        sample_type == choice_field("SampleType", data.sample_type)
        specimen_source == choice_field("SpecimenSource", data.specimen_source)
    IN FieldError("label", label) \cup FieldError("organism", organism)
       \cup FieldError("project", project)
       \cup FieldError("sample_type", sample_type)
       \cup FieldError("specimen_source", specimen_source)
       \cup clean(project, organism)

FormData(l, o, p, st, ss) ==
    [label |-> l, organism |-> o, project |-> p, sample_type |-> st,
     specimen_source |-> ss]

\* The form bound to data for instance pk, after full_clean.
Validated(data, pk) ==
    [bound |-> TRUE, data |-> data, instance |-> pk,
     cleaned |-> label_field(data.label, pk).value,
     errors |-> form_errors(data, pk)]

\* form = SampleForm(data, instance); form.is_valid(): a new form is bound
\* to the submitted data and validated; nothing is stored.
SampleFormIsValid(datas, instances) ==
    /\ ~form.bound
    /\ \E data \in datas, pk \in instances : form' = Validated(data, pk)
    /\ UNCHANGED <<db, last, query, request, outbox, connVars>>

\* The request that built the form ends (the form is rendered back with its
\* errors, or the caller is done with it): the form object is dropped.
EndRequest ==
    /\ form.bound
    /\ form' = NoForm
    /\ UNCHANGED <<db, last, query, request, outbox, connVars>>

\* A database that holds one row of each table a Sample depends on and two
\* Samples, labelled "a" and "7".
LabelDB ==
    [t \in Tables |->
       CASE t \in {"Organism", "Gemstone", "SampleType", "SpecimenSource"} ->
              { [id |-> 1] }
         [] t = "Project" -> { [id |-> 1, gemstone |-> 1] }
         [] t = "Sample" ->
              { [id |-> 1, label |-> <<"a">>, organism |-> 1, project |-> 1,
                 sample_type |-> 1, specimen_source |-> 1],
                [id |-> 2, label |-> <<"7">>, organism |-> 1, project |-> 1,
                 sample_type |-> 1, specimen_source |-> 1] }
         [] OTHER -> {}]

InitLabel ==
    /\ db = LabelDB
    /\ last = NoOp
    /\ query = NoQuery
    /\ form = NoForm
    /\ Untouched

\* Every label of up to MaxLabelLen characters, submitted with all four
\* relations chosen, to create a Sample or to edit Sample 1.
NextLabel ==
    \/ SampleFormIsValid({ FormData(l, 1, 1, 1, 1) : l \in Labels(MaxLabelLen) },
                         {NULL, 1})
    \/ EndRequest

SpecLabel == InitLabel /\ [][NextLabel]_vars

\* The label got past the field's own checks and the pattern of clean_label.
PassesFormat(f) ==
    f.errors \cap { <<"label", "required">>, <<"label", "max_length">>,
                    <<"label", "invalid_label">> } = {}

HasLabelError(f) == \E e \in f.errors : e[1] = "label"

C11_UniqueExceptSelfCaseSensitive ==
    (form.bound /\ PassesFormat(form)) =>
       LET l == strip(form.data.label)
           others == { r \in db["Sample"] : r.id # form.instance }
           own == { r \in db["Sample"] : r.id = form.instance }
       IN /\ (<<"label", "label_exists">> \in form.errors)
                <=> (\E r \in others : r.label = l)
          /\ (form.instance = NULL /\ \E r \in db["Sample"] : r.label = l)
                => HasLabelError(form)
          /\ (\E r \in own : r.label = l) => ~HasLabelError(form)
          /\ (l = <<"A">> /\ form.instance = NULL) => ~HasLabelError(form)

\* C11 witness: Sample 1, labelled "a", was edited with its label unchanged
\* and the form has no error.
C11_Witness ==
    /\ form.bound /\ form.instance = 1
    /\ form.data.label = <<"a">>
    /\ \E r \in db["Sample"] : r.id = 1 /\ r.label = <<"a">>
    /\ form.errors = {}

(***************************************************************************)
(* The sample creation view: core/views.py, sample_create_view.  One       *)
(* request is served at a time; each statement of the view that touches    *)
(* the database, the mail server or the response is a step.                *)
(***************************************************************************)
MaxMails == 2      \* mails in the outbox
MaxSamples == 4       \* Sample ids 1..MaxSamples

\* The labels submitted to the view: empty, stored already, new ones,
\* padded with whitespace, and malformed.
ViewLabels == {<<>>, <<"a">>, <<"A">>, <<"_", " ">>, <<"!">>}

\* request.POST: a label and, for each relation, the id chosen or nothing.
ViewData ==
    { FormData(l, o, p, st, ss) :
        l \in ViewLabels, o \in OptIds("Organism"), p \in OptIds("Project"),
        st \in OptIds("SampleType"), ss \in OptIds("SpecimenSource") }

\* The mail send_mail hands to the mail server for a saved Sample.
Mail(sample) ==
    [subject |-> "Sample Submission Confirmation", sample |-> sample.id,
     label |-> sample.label]

\* @login_required: a request without a logged-in user is sent to the login
\* page and never reaches the view.
LoginRequired ==
    /\ request.pc = "idle"
    /\ \E m \in {"GET", "POST"} :
          request' = [request EXCEPT !.pc = "done", !.method = m,
                                     !.response = "redirect_login"]
    /\ UNCHANGED <<db, last, query, form, outbox, connVars>>

\* GET: form = SampleForm(); render the empty form.
Get ==
    /\ request.pc = "idle"
    /\ request' = [request EXCEPT !.pc = "done", !.method = "GET",
                                  !.response = "render_form"]
    /\ UNCHANGED <<db, last, query, form, outbox, connVars>>

\* POST with request.POST one of datas: form = SampleForm(request.POST);
\* form.is_valid().  Requests are taken while the table has a free id and
\* the outbox has room.
PostOf(datas) ==
    /\ request.pc = "idle"
    /\ ~form.bound
    /\ FreeIds("Sample", MaxSamples) # {}
    /\ Len(outbox) < MaxMails
    /\ \E data \in datas : form' = Validated(data, NULL)
    /\ request' = [request EXCEPT !.pc = "validated", !.method = "POST"]
    /\ UNCHANGED <<db, last, query, outbox, connVars>>

Post == PostOf(ViewData)

\* The row form.save() inserts.
SavedRow(i) ==
    [id |-> i, label |-> form.cleaned, organism |-> form.data.organism,
     project |-> form.data.project, sample_type |-> form.data.sample_type,
     specimen_source |-> form.data.specimen_source]

\* Variant: the form is saved without looking at is_valid().
FormSave_Unchecked ==
    /\ request.pc = "validated"
    /\ \E i \in FreeIds("Sample", MaxSamples) :
          /\ Insert("Sample", SavedRow(i))
          /\ request' = IF last'.status = "ok"
                        THEN [request EXCEPT !.pc = "saved", !.sample = i]
                        ELSE [request EXCEPT !.pc = "done", !.response = "error"]
    /\ UNCHANGED <<query, form, outbox, connVars>>

\* sample = form.save(), taken when form.is_valid(): the row is inserted and
\* committed, or the INSERT fails and the IntegrityError leaves the view.
FormSave ==
    /\ request.pc = "validated"
    /\ form.errors = {}
    /\ \E i \in FreeIds("Sample", MaxSamples) :
          /\ Insert("Sample", SavedRow(i))
          /\ request' = IF last'.status = "ok"
                        THEN [request EXCEPT !.pc = "saved", !.sample = i]
                        ELSE [request EXCEPT !.pc = "done", !.response = "error"]
    /\ UNCHANGED <<query, form, outbox, connVars>>

\* Variant: a send that raises is tried again.
SendMail_Retry ==
    /\ request.pc = "saved"
    /\ request.attempts < 2
    /\ \E s \in { r \in db["Sample"] : r.id = request.sample } :
          \/ /\ outbox' = Append(outbox, Mail(s))
             /\ request' = [request EXCEPT !.pc = "mailed",
                                           !.attempts = @ + 1]
          \/ /\ outbox' = outbox
             /\ request' = [request EXCEPT !.attempts = @ + 1,
                                           !.raised = TRUE]
    /\ UNCHANGED <<db, last, query, form, connVars>>

\* send_mail(..., fail_silently=False): the mail goes out, or the send
\* raises and the exception leaves the view (the request ends in an error
\* response).
SendMail ==
    /\ request.pc = "saved"
    /\ \E s \in { r \in db["Sample"] : r.id = request.sample } :
          \/ /\ outbox' = Append(outbox, Mail(s))
             /\ request' = [request EXCEPT !.pc = "mailed",
                                           !.attempts = @ + 1]
          \/ /\ outbox' = outbox
             /\ request' = [request EXCEPT !.pc = "done",
                                           !.attempts = @ + 1,
                                           !.raised = TRUE,
                                           !.response = "error"]
    /\ UNCHANGED <<db, last, query, form, connVars>>

\* Variant: the redirect is returned as soon as the form is saved.
Redirect_BeforeMail ==
    /\ request.pc \in {"saved", "mailed"}
    /\ request' = [request EXCEPT !.pc = "done",
                                  !.response = "redirect_success"]
    /\ UNCHANGED <<db, last, query, form, outbox, connVars>>

\* return redirect(reverse('core:sample_success')).
Redirect ==
    /\ request.pc = "mailed"
    /\ request' = [request EXCEPT !.pc = "done",
                                  !.response = "redirect_success"]
    /\ UNCHANGED <<db, last, query, form, outbox, connVars>>

\* Variant: the success redirect is returned for an invalid form as well.
Render_AsSuccess ==
    /\ request.pc = "validated"
    /\ form.errors # {}
    /\ request' = [request EXCEPT !.pc = "done",
                                  !.response = "redirect_success"]
    /\ UNCHANGED <<db, last, query, form, outbox, connVars>>

\* The form did not validate: return render(request, ..., {'form': form}),
\* the form with its errors.
Render ==
    /\ request.pc = "validated"
    /\ form.errors # {}
    /\ request' = [request EXCEPT !.pc = "done", !.response = "render_form"]
    /\ UNCHANGED <<db, last, query, form, outbox, connVars>>

\* The response is out; the request and its form are gone.
RequestDone ==
    /\ request.pc = "done"
    /\ request' = NoRequest
    /\ form' = NoForm
    /\ UNCHANGED <<db, last, query, outbox, connVars>>

sample_create_view ==
    \/ Get
    \/ Post
    \/ FormSave
    \/ SendMail
    \/ Redirect
    \/ Render

NextView ==
    \/ LoginRequired
    \/ sample_create_view
    \/ RequestDone

SpecView == InitLabel /\ [][NextView]_vars

\* The form was bound and did not validate.
Rejected(f) == f.bound /\ f.errors # {}

\* The step returns the response of the request.
Responds == request.pc # "done" /\ request'.pc = "done"

\* C12: a submission without a project or without an organism does not
\* validate, whatever its other fields are; and while a form that did not
\* validate is being handled no Sample row is stored, and the request ends
\* with the form rendered back.
C12_ProjectAndOrganismRequired ==
    [][ /\ (form'.bound /\ (form'.data.project = NULL \/ form'.data.organism = NULL))
            => Rejected(form')
        /\ (Rejected(form) \/ Rejected(form')) => db' = db
        /\ (Rejected(form) /\ Responds) => request'.response = "render_form"
      ]_vars

\* C12 witness: a submission with a fresh, well-formed label and every
\* relation but the project was answered with the form, and stored nothing.
C12_Witness ==
    /\ request.pc = "done" /\ request.method = "POST"
    /\ request.response = "render_form"
    /\ form.data.label = <<"A">> /\ form.data.project = NULL
    /\ form.data.organism = 1 /\ form.data.sample_type = 1
    /\ \A r \in db["Sample"] : r.label # <<"A">>

\* The errors attached to a field of the form (not to the form as a whole).
FieldErrors(f) == { e \in f.errors : e[1] # "__all__" }

\* C13: when the submission does not validate, the response is the form
\* rendered back, the form carries at least one field-level error (for a
\* missing label, the required error on label), and no step of the request
\* stores a row, sends a mail or returns the success redirect.
C13_InvalidSubmissionRedisplayed ==
    [][ /\ (Rejected(form) \/ Rejected(form'))
            => /\ db' = db
               /\ outbox' = outbox
               /\ request'.response # "redirect_success"
        /\ Rejected(form')
            => /\ FieldErrors(form') # {}
               /\ strip(form'.data.label) = <<>>
                    => <<"label", "required">> \in form'.errors
        /\ (Rejected(form) /\ Responds) => request'.response = "render_form"
      ]_vars

\* C13 witness: a submission without a label was answered with the form and
\* the required error on label.
C13_Witness ==
    /\ request.pc = "done" /\ request.response = "render_form"
    /\ form.bound /\ form.data.label = <<>>
    /\ <<"label", "required">> \in form.errors

\* The mails in the outbox that are about Sample i.
MailsFor(i) == { k \in 1..Len(outbox) : outbox[k].sample = i }

\* C14: a mail is sent only for the Sample the request has already stored,
\* one mail per step; the success redirect is returned only when the Sample
\* of the request is stored and exactly one mail for it has been sent; a row
\* is stored only by a POST, before any mail for it; and a GET stores nothing
\* and sends nothing.
C14_SaveThenNotifyThenRedirect ==
    [][ /\ outbox' # outbox
            => /\ request.pc = "saved"
               /\ \E r \in db["Sample"] :
                     /\ r.id = request.sample
                     /\ outbox' = Append(outbox, Mail(r))
        /\ (Responds /\ request'.response = "redirect_success")
            => /\ request.sample \in Ids("Sample")
               /\ Cardinality(MailsFor(request.sample)) = 1
               /\ request.attempts = 1
        /\ db' # db
            => /\ request.method = "POST"
               /\ outbox' = outbox
               /\ MailsFor(request'.sample) = {}
        /\ (request.method = "GET" \/ request'.method = "GET")
            => (db' = db /\ outbox' = outbox)
      ]_vars

\* C14 witness: a valid POST was answered with the success redirect after its
\* Sample was stored and its mail sent.
C14_Witness ==
    /\ request.pc = "done" /\ request.response = "redirect_success"
    /\ \E r \in db["Sample"] : r.id = request.sample /\ r.label = form.cleaned
    /\ Cardinality(MailsFor(request.sample)) = 1

\* C15 as claimed: a request that did not end with the success redirect has
\* left no Sample row behind.
C15_AllOrNothing ==
    (request.pc = "done" /\ request.response # "redirect_success")
       => request.sample \notin Ids("Sample")

\* C16: once a send has raised, the request is over with an error response,
\* the success redirect is not returned, and send_mail was called once.
C16_FailedSendFailsRequest ==
    request.raised =>
       /\ request.pc = "done"
       /\ request.response = "error"
       /\ request.attempts = 1

\* C16 witness: the send for a stored Sample raised and the request ended in
\* an error response.
C16_Witness ==
    /\ request.raised /\ request.response = "error"
    /\ request.sample \in Ids("Sample")
    /\ MailsFor(request.sample) = {}

(***************************************************************************)
(* The connector: lims_utils/lims_io_manager.py, and the constructor of    *)
(* the query manager, which uses it.                                       *)
(***************************************************************************)
MaxSessions == 2      \* sessions handed out by one connector

\* The fields initiate_db reads from the selected section.
RequiredKeys == {"username", "password", "host", "database", "sslca"}

\* LimsConnector.get_config_file_path, in environment e.
get_config_file_path(e) ==
    IF e.CONFIG_FILE \notin {"unset", ""} THEN e.CONFIG_FILE
    ELSE IF e.DATABASE_YML_PATH = "unset" THEN "database.yml"
    ELSE e.DATABASE_YML_PATH

\* Variant: LIMS_ENVIRONMENT is read without a default.
environment_NoDefault(e) == e.LIMS_ENVIRONMENT

\* Variant: the name written by the command-line utility wins when present.
environment_FromCli(e) ==
    IF e.ENVIRONMENT # "unset" THEN e.ENVIRONMENT
    ELSE IF e.LIMS_ENVIRONMENT = "unset" THEN "production"
    ELSE e.LIMS_ENVIRONMENT

\* os.getenv('LIMS_ENVIRONMENT', 'production').
environment(e) ==
    IF e.LIMS_ENVIRONMENT = "unset" THEN "production" ELSE e.LIMS_ENVIRONMENT

Loaded(status, cert_read, engine) ==
    [status |-> status, cert_read |-> cert_read, engine |-> engine]

\* Variant: the certificate file is read before the fields are checked.
load_CertBeforeCheck(path, section, e) ==
    IF path \notin e.files THEN Loaded("FileNotFoundError", FALSE, NoEngine)
    ELSE IF e.sections = {} THEN Loaded("TypeError", FALSE, NoEngine)
    ELSE IF section \notin e.sections THEN Loaded("KeyError", FALSE, NoEngine)
    ELSE IF "sslca" \notin e.keys THEN Loaded("TypeError", FALSE, NoEngine)
    ELSE IF e.sslca = "missing" THEN Loaded("FileNotFoundError", FALSE, NoEngine)
    ELSE IF ~(RequiredKeys \subseteq e.keys) THEN Loaded("ValueError", TRUE, NoEngine)
    ELSE Loaded("ok", TRUE, [id |-> 1, ssl |-> e.sslca = "pem"])

\* The body of initiate_db for a configuration path and a section name: open
\* and parse the YAML file, select the section, check the five fields, read
\* the certificate file, create the engine.
load(path, section, e) ==
    IF path \notin e.files THEN Loaded("FileNotFoundError", FALSE, NoEngine)
    ELSE IF e.sections = {} THEN Loaded("TypeError", FALSE, NoEngine)
    ELSE IF section \notin e.sections THEN Loaded("KeyError", FALSE, NoEngine)
    ELSE IF ~(RequiredKeys \subseteq e.keys) THEN Loaded("ValueError", FALSE, NoEngine)
    ELSE IF e.sslca = "missing" THEN Loaded("FileNotFoundError", FALSE, NoEngine)
    ELSE Loaded("ok", TRUE, [id |-> 1, ssl |-> e.sslca = "pem"])

Called(op, status, arg, session) ==
    [op |-> op, status |-> status, arg |-> arg, session |-> session]

\* LimsConnector(...): __init__ takes no argument besides self, so a call
\* that passes a path raises TypeError and constructs nothing.
LimsConnectorInit ==
    /\ \E arg \in {"none", "/x.yml"} :
          connector' =
             IF arg # "none"
             THEN [connector EXCEPT
                     !.call = Called("__init__", "TypeError", arg, NoSession)]
             ELSE [NoConnector EXCEPT
                     !.constructed = TRUE,
                     !.environment = environment(env),
                     !.config_file_path = get_config_file_path(env),
                     !.call = Called("__init__", "ok", arg, NoSession)]
    /\ UNCHANGED <<db, last, query, webVars, env, manager, cli>>

\* LimsConnector.initiate_db.
initiate_db ==
    /\ connector.constructed
    /\ LET out == load(connector.config_file_path, connector.environment, env)
       IN connector' =
             [connector EXCEPT
                !.engine = IF out.status = "ok" THEN out.engine ELSE @,
                !.cert_read = @ \/ out.cert_read,
                !.call = Called("initiate_db", out.status, "none", NoSession)]
    /\ UNCHANGED <<db, last, query, webVars, env, manager, cli>>

\* Variant: a session is made whether or not an engine exists.
get_session_Unchecked ==
    /\ connector.constructed
    /\ connector.sessions < MaxSessions
    /\ connector' =
          [connector EXCEPT
             !.sessions = @ + 1,
             !.call = Called("get_session", "ok", "none",
                             [id |-> connector.sessions + 1,
                              engine |-> connector.engine.id])]
    /\ UNCHANGED <<db, last, query, webVars, env, manager, cli>>

\* LimsConnector.get_session: ValueError without an engine, else a new
\* session bound to the engine.
get_session ==
    /\ connector.constructed
    /\ connector.sessions < MaxSessions
    /\ connector' =
          IF connector.engine = NoEngine
          THEN [connector EXCEPT
                  !.call = Called("get_session", "ValueError", "none", NoSession)]
          ELSE [connector EXCEPT
                  !.sessions = @ + 1,
                  !.call = Called("get_session", "ok", "none",
                                  [id |-> connector.sessions + 1,
                                   engine |-> connector.engine.id])]
    /\ UNCHANGED <<db, last, query, webVars, env, manager, cli>>

\* DatabaseManager(): lc = LimsConnector(); self.engine = lc.initiate_db();
\* self.session = lc.get_session().  An exception of initiate_db leaves the
\* constructor, and no manager exists.
DatabaseManagerInit ==
    /\ LET out == load(get_config_file_path(env), environment(env), env)
       IN manager' = IF out.status = "ok"
                     THEN ReadyManager(out.engine)
                     ELSE [manager EXCEPT !.status = out.status]
    /\ UNCHANGED <<db, last, query, webVars, env, connector, cli>>

\* The environments a connector is constructed in.
ConnectorEnvs ==
    { Env(le, cf, dyp, files, sections, keys, sslca) :
        le \in {"unset", "dev"},
        cf \in {"unset", "", "/c.yml"},
        dyp \in {"unset", "", "/d.yml"},
        files \in {{}, {"/c.yml", "/d.yml", "database.yml"}},
        sections \in {{}, {"production"}, {"production", "dev"}},
        keys \in {RequiredKeys, {}} \cup { RequiredKeys \ {k} : k \in RequiredKeys },
        sslca \in {"missing", "empty", "pem"} }

InitConnector ==
    /\ db = PopulatedDB
    /\ last = NoOp
    /\ query = NoQuery
    /\ form = NoForm
    /\ request = NoRequest
    /\ outbox = <<>>
    /\ env \in ConnectorEnvs
    /\ connector = NoConnector
    /\ manager = NoManager
    /\ cli = NoCli

NextConnector ==
    \/ LimsConnectorInit
    \/ initiate_db
    \/ get_session
    \/ DatabaseManagerInit
    \/ query_all_samples
    \/ query_sample_by_id

SpecConnector == InitConnector /\ [][NextConnector]_vars

\* The configuration file exists at the path and has the section.
SectionSelected(path, section) == path \in env.files /\ section \in env.sections

MissingField == ~(RequiredKeys \subseteq env.keys)

\* C17: when the selected section lacks one of username, password, host,
\* database and sslca, initiate_db ends with ValueError; a call that ended
\* with ValueError has not read the certificate file and has left the
\* connector without an engine; and a DatabaseManager whose constructor met
\* such a section does not exist, so no query has been made through it.
C17_MissingFieldFailsBeforeCert ==
    /\ connector.call.op = "initiate_db" =>
          /\ (SectionSelected(connector.config_file_path, connector.environment)
                /\ MissingField)
              => connector.call.status = "ValueError"
          /\ connector.call.status = "ValueError"
              => /\ MissingField
                 /\ ~connector.cert_read
                 /\ connector.engine = NoEngine
    /\ (manager.status # "none"
          /\ SectionSelected(get_config_file_path(env), environment(env))
          /\ MissingField)
        => /\ manager.status = "ValueError"
           /\ ~manager.constructed
           /\ manager.engine = NoEngine
           /\ query = NoQuery

\* C17 witness: initiate_db ended with ValueError on a section without a
\* password, although the certificate file was there to be read.
C17_Witness ==
    /\ connector.call.op = "initiate_db"
    /\ connector.call.status = "ValueError"
    /\ env.keys = RequiredKeys \ {"password"}
    /\ env.sslca = "pem"

\* C18: a get_session call raises ValueError exactly when the connector has
\* no engine; a call that raised changed nothing else in the connector; a
\* call that returned gave a session bound to the connector's engine; and
\* only an initiate_db that ended well gives the connector an engine.
C18_SessionNeedsEngine ==
    [][ /\ (connector'.call.op = "get_session" /\ connector' # connector)
            => /\ connector'.call.status =
                     IF connector.engine = NoEngine THEN "ValueError" ELSE "ok"
               /\ connector'.call.status = "ValueError"
                    => connector' = [connector EXCEPT !.call = connector'.call]
               /\ connector'.call.status = "ok"
                    => /\ connector'.call.session.id # NULL
                       /\ connector'.call.session.engine = connector.engine.id
                       /\ connector'.engine = connector.engine
        /\ (connector'.engine # connector.engine /\ connector'.engine # NoEngine)
            => /\ connector'.call.op = "initiate_db"
               /\ connector'.call.status = "ok"
      ]_vars

\* C18 witness: get_session raised on a connector whose configuration can
\* never give it an engine.
C18_Witness ==
    /\ connector.call.op = "get_session"
    /\ connector.call.status = "ValueError"
    /\ connector.engine = NoEngine
    /\ MissingField

\* C19 as claimed: constructing a connector resolves the configuration path
\* to the path argument when one is passed, else to CONFIG_FILE when it is
\* set, else to DATABASE_YML_PATH when it is set, else to 'database.yml'.
C19_PathPriority ==
    connector.call.op = "__init__" =>
       /\ connector.call.status = "ok"
       /\ connector.config_file_path =
             IF connector.call.arg # "none" THEN connector.call.arg
             ELSE IF env.CONFIG_FILE \notin {"unset", ""} THEN env.CONFIG_FILE
             ELSE IF env.DATABASE_YML_PATH # "unset" THEN env.DATABASE_YML_PATH
             ELSE "database.yml"

\* C20 as claimed: a manager holds one engine, and two query calls made one
\* after the other never run on the same session.
C20_SessionPerUse ==
    [][ /\ manager'.constructed => manager'.engine # NoEngine
        /\ (query.op # "none" /\ query' # query)
            => query'.session # query.session ]_vars

\* C26 as claimed: every engine that initiate_db created carries the content
\* of the sslca file as its TLS CA, that is, no engine has empty connection
\* arguments.
C26_EngineAlwaysHasTls ==
    /\ connector.engine # NoEngine => connector.engine.ssl
    /\ manager.constructed => manager.engine.ssl

(***************************************************************************)
(* The configuration utility: lims_utils/lims_config_handler.py, run in    *)
(* the process that then constructs the connector.                         *)
(***************************************************************************)

\* ConfigurationManager.set_config(config_file, environment), on environment e.
set_config(e, config_file, name) ==
    [e EXCEPT !.CONFIG_FILE = config_file, !.ENVIRONMENT = name]

\* ConfigurationManager.get_config().
get_config(e) == [config_file |-> e.CONFIG_FILE, environment |-> e.ENVIRONMENT]

\* ConfigurationManager.update_config: the two options are parsed, written
\* with set_config when neither is empty, and the configuration read back
\* with get_config is printed.
update_config ==
    /\ \E config_file \in {"", "/c.yml", "/e.yml"}, name \in {"", "dev", "staging"} :
          LET wrote == config_file # "" /\ name # ""
              after == IF wrote THEN set_config(env, config_file, name) ELSE env
          IN /\ env' = after
             /\ cli' = [op |-> "update_config", config_file |-> config_file,
                        environment |-> name, wrote |-> wrote,
                        config |-> get_config(after)]
    /\ UNCHANGED <<db, last, query, webVars, connector, manager>>

\* The environments the utility and the connector run in: the configuration
\* file is complete, what varies is what names the section and the path.
ConfigEnvs ==
    { Env(le, cf, dyp, {"/c.yml", "/d.yml", "database.yml"}, sections,
          RequiredKeys, "pem") :
        le \in {"unset", "", "dev"},
        cf \in {"unset", "/c.yml"},
        dyp \in {"unset", "/d.yml"},
        sections \in {{"production"}, {"production", "dev"}} }

InitConfig ==
    /\ db = EmptyDB
    /\ last = NoOp
    /\ query = NoQuery
    /\ form = NoForm
    /\ request = NoRequest
    /\ outbox = <<>>
    /\ env \in ConfigEnvs
    /\ connector = NoConnector
    /\ manager = NoManager
    /\ cli = NoCli

NextConfig ==
    \/ update_config
    \/ LimsConnectorInit
    \/ initiate_db

SpecConfig == InitConfig /\ [][NextConfig]_vars

\* C21: the section a constructed connector uses is the value LIMS_ENVIRONMENT
\* had at construction, "production" when the variable is unset, whatever
\* CONFIG_FILE, DATABASE_YML_PATH and ENVIRONMENT hold; initiate_db succeeds
\* only when the file has that section and fails with KeyError exactly when
\* the file is there without it.
C21_SectionFromLimsEnvironment ==
    /\ connector.constructed =>
          connector.environment =
             IF env.LIMS_ENVIRONMENT = "unset" THEN "production"
             ELSE env.LIMS_ENVIRONMENT
    /\ connector.call.op = "initiate_db" =>
          /\ connector.call.status = "ok" => connector.environment \in env.sections
          /\ connector.call.status = "KeyError" <=>
                /\ connector.config_file_path \in env.files
                /\ connector.environment \notin env.sections

\* C21 case: LIMS_ENVIRONMENT is unset, the utility has written another name
\* to ENVIRONMENT, and initiate_db has loaded the "production" section.
C21_Witness ==
    /\ env.LIMS_ENVIRONMENT = "unset"
    /\ env.ENVIRONMENT = "staging"
    /\ connector.call.op = "initiate_db"
    /\ connector.call.status = "ok"
    /\ connector.environment = "production"

\* C21 case: LIMS_ENVIRONMENT names a section the file lacks.
C21_WitnessKeyError ==
    /\ env.LIMS_ENVIRONMENT = "dev"
    /\ connector.call.op = "initiate_db"
    /\ connector.call.status = "KeyError"

\* C30: a run of the utility that writes leaves CONFIG_FILE and ENVIRONMENT
\* holding its two arguments, get_config returns them unchanged, and the
\* connector resolves its path to the CONFIG_FILE written; the section of a
\* constructed connector is the one it would have with ENVIRONMENT unset.
C30_CliEnvironmentIgnored ==
    /\ cli.wrote =>
          /\ env.CONFIG_FILE = cli.config_file
          /\ env.ENVIRONMENT = cli.environment
          /\ cli.config = [config_file |-> cli.config_file,
                           environment |-> cli.environment]
          /\ get_config_file_path(env) = cli.config_file
    /\ \A name \in {"unset", "dev", "staging"} :
          environment([env EXCEPT !.ENVIRONMENT = name]) = environment(env)
    /\ connector.constructed =>
          connector.environment = environment([env EXCEPT !.ENVIRONMENT = "unset"])

\* C30 case: the utility wrote a path and the name "staging", a connector was
\* then constructed on that path and loaded the "production" section.
C30_Witness ==
    /\ cli.wrote
    /\ cli.environment = "staging"
    /\ connector.call.op = "initiate_db"
    /\ connector.call.status = "ok"
    /\ connector.config_file_path = cli.config_file
    /\ connector.environment = "production"

(***************************************************************************)
(* The protected references around Organism and ReferenceGenome, with the  *)
(* Samples that a deleted Organism or Project takes along (SpecProtect).   *)
(***************************************************************************)
NextProtect ==
    \/ CreateOrganism(MaxLookupRows)
    \/ CreateGemstone(MaxLookupRows)
    \/ CreateProject(MaxLookupRows)
    \/ CreateSampleType(MaxLookupRows)
    \/ CreateSpecimenSource(MaxLookupRows)
    \/ CreateSample(MaxLookupRows, {<<"s">>})
    \/ CreateReferenceGenome(MaxRows)
    \/ CreateCoordinateSet(MaxLookupRows)
    \/ Delete

SpecProtect == Init /\ [][NextProtect]_vars

\* C29: a delete of a row that some stored row references through a PROTECT
\* foreign key fails with ProtectedError, and a delete that fails with
\* ProtectedError leaves every table as it was, the rows it would have
\* cascaded to included.
C29_BlockedDeleteRemovesNothing ==
    [][ (last' # last /\ last'.op = "delete") =>
           /\ (\E fk \in ProtectFKs : \E r \in db[fk.child] :
                   fk.parent = last'.table /\ r[fk.field] = last'.id)
                => last'.status = "ProtectedError"
           /\ last'.status = "ProtectedError" => db' = db ]_vars

\* C29 case: the delete of an Organism that has a Sample and is referenced by
\* a ReferenceGenome has failed, and the Sample is still stored.
C29_Witness ==
    /\ last.op = "delete"
    /\ last.table = "Organism"
    /\ last.status = "ProtectedError"
    /\ \E r \in db["Sample"] : r.organism = last.id
    /\ \E g \in db["ReferenceGenome"] : g.organism = last.id

\* C29 case: the delete of a ReferenceGenome that a CoordinateSet references
\* has failed.
C29_WitnessCoordinateSet ==
    /\ last.op = "delete"
    /\ last.table = "ReferenceGenome"
    /\ last.status = "ProtectedError"
    /\ \E c \in db["CoordinateSet"] : c.reference_genome = last.id

(***************************************************************************)
(* The sequencing tables: Flowcell, Run, Lane, Analyses, Library and       *)
(* LibraryLane, over a database that holds the rows they refer to          *)
(* (SpecSequencing).                                                       *)
(***************************************************************************)
MaxBardex == 2    \* Bardex rows in the database

CreateFlowcell(cap) ==
    /\ \E i \in FreeIds("Flowcell", cap), b \in OptIds("Barcode") :
           Insert("Flowcell", [id |-> i, barcode |-> b])
    /\ UNCHANGED <<query, webVars, connVars>>

CreateRun(cap) ==
    /\ \E i \in FreeIds("Run", cap), n \in OptIds("Instrument"),
          f \in Ids("Flowcell") :
           Insert("Run", [id |-> i, instrument |-> n, flowcell |-> f])
    /\ UNCHANGED <<query, webVars, connVars>>

CreateAnalyses(cap) ==
    /\ \E i \in FreeIds("Analyses", cap), ty \in OptIds("AnalysisType"),
          f \in Ids("Flowcell") :
           Insert("Analyses", [id |-> i, analysis_type |-> ty, flowcell |-> f])
    /\ UNCHANGED <<query, webVars, connVars>>

CreateLane(cap) ==
    /\ \E i \in FreeIds("Lane", cap), f \in Ids("Flowcell"), p \in Ids("Pool"),
          sq \in Ids("SequenceType") :
           Insert("Lane", [id |-> i, flowcell |-> f, pool |-> p,
                           sequence_type |-> sq])
    /\ UNCHANGED <<query, webVars, connVars>>

\* Library.objects.create(...): the two index columns are chosen
\* independently of each other.
CreateLibrary(cap) ==
    /\ \E i \in FreeIds("Library", cap), ty \in Ids("LibraryType"),
          s \in Ids("Sample"), p \in Ids("Protocol"), b \in Ids("Bardex"),
          b2 \in OptIds("Bardex") :
           Insert("Library", [id |-> i, library_type |-> ty, sample |-> s,
                              protocol |-> p, bardex |-> b, second_bardex |-> b2])
    /\ UNCHANGED <<query, webVars, connVars>>

CreateLibraryLane(cap) ==
    /\ \E i \in FreeIds("LibraryLane", cap), l \in Ids("Lane"),
          lib \in Ids("Library") :
           Insert("LibraryLane", [id |-> i, lane |-> l, library |-> lib])
    /\ UNCHANGED <<query, webVars, connVars>>

\* LibraryUpdateView: the model form over all fields of a stored Library;
\* each index is validated as a choice of an existing Bardex (the second may
\* be left empty) and the row is saved.
LibraryUpdateView ==
    /\ \E lib \in db["Library"], b \in Ids("Bardex"), b2 \in OptIds("Bardex") :
          LET row == [lib EXCEPT !.bardex = b, !.second_bardex = b2]
          IN /\ db' = [db EXCEPT !["Library"] = (@ \ {lib}) \cup {row}]
             /\ last' = Op("update", "Library", row, "ok", {}, {})
    /\ UNCHANGED <<query, webVars, connVars>>

\* obj.delete() on a stored row of one of the tables ts.
DeleteIn(ts) ==
    /\ \E t \in ts : \E i \in Ids(t) : DeleteRow(t, i)
    /\ UNCHANGED <<query, webVars, connVars>>

\* The tables whose rows the sequencing part deletes: its own, and Sample,
\* Bardex and Barcode, whose deletion reaches into them.
SequencingTables ==
    { "Sample", "Bardex", "Barcode", "Flowcell", "Run", "Analyses", "Lane",
      "Library", "LibraryLane", "AnalysisOutput" }

\* A database with one row of every table the sequencing tables refer to,
\* two Bardex rows, one Sample and one AnalysisOutput of that Sample.
SequencingDB ==
    [t \in Tables |->
       CASE t \in {"LibraryType", "Protocol", "Pool", "SequenceType", "Organism",
                   "Gemstone", "SampleType", "SpecimenSource", "Barcode",
                   "DownstreamAnalysisType"} -> { [id |-> 1] }
         [] t = "Bardex" -> { [id |-> i] : i \in 1..MaxBardex }
         [] t = "AnalysisOutputType" -> { [id |-> 1, label |-> "x"] }
         [] t = "Project" -> { [id |-> 1, gemstone |-> 1] }
         [] t = "Sample" ->
              { [id |-> 1, label |-> <<"s">>, organism |-> 1, project |-> 1,
                 sample_type |-> 1, specimen_source |-> 1] }
         [] t = "DownstreamAnalysis" ->
              { [id |-> 1, label |-> "analysis", downstream_analysis_type |-> 1,
                 sample |-> 1, sequence_type |-> 1, coordinate_set |-> NULL,
                 reference_genome |-> NULL] }
         [] t = "AnalysisOutput" ->
              { [id |-> 1, sample |-> 1, sequence_type |-> 1,
                 analysis_output_type |-> 1, analysis |-> 1] }
         [] OTHER -> {}]

InitSequencing ==
    /\ db = SequencingDB
    /\ last = NoOp
    /\ query = NoQuery
    /\ form = NoForm
    /\ Untouched

NextSequencing ==
    \/ CreateFlowcell(MaxLookupRows)
    \/ CreateRun(MaxLookupRows)
    \/ CreateAnalyses(MaxLookupRows)
    \/ CreateLane(MaxLookupRows)
    \/ CreateLibrary(MaxLookupRows)
    \/ CreateLibraryLane(MaxLookupRows)
    \/ LibraryUpdateView
    \/ DeleteIn(SequencingTables)

SpecSequencing == InitSequencing /\ [][NextSequencing]_vars

\* In database d every foreign key is NULL only where the column is
\* nullable, and otherwise is the id of a stored row of the parent table.
NoDangling(d) ==
    \A fk \in ForeignKeys : \A r \in d[fk.child] :
        IF r[fk.field] = NULL THEN fk.null
        ELSE r[fk.field] \in IdsIn(d, fk.parent)

\* C24 as claimed: no stored Library has the same Bardex row as its primary
\* and as its second index.
C24_IndicesDiffer ==
    \A lib \in db["Library"] :
        lib.second_bardex # NULL => lib.second_bardex # lib.bardex

\* C28: after every step no row holds a dangling foreign key or a NULL in a
\* mandatory one; a step that deletes a Sample leaves no Library of it, no
\* LibraryLane of such a Library and no AnalysisOutput of it; a step that
\* deletes a Flowcell leaves no Run, Lane or Analyses of it and no
\* LibraryLane of such a Lane.
C28_NoDanglingReference ==
    [][ /\ NoDangling(db')
        /\ (last' # last /\ last'.op = "delete" /\ last'.status = "ok"
              /\ last'.table = "Sample") =>
              LET libs == { l.id : l \in { x \in db["Library"] : x.sample = last'.id } }
              IN /\ \A l \in db'["Library"] : l.sample # last'.id
                 /\ \A ll \in db'["LibraryLane"] : ll.library \notin libs
                 /\ \A o \in db'["AnalysisOutput"] : o.sample # last'.id
                 /\ { <<"Library", l>> : l \in libs } \subseteq last'.deleted
        /\ (last' # last /\ last'.op = "delete" /\ last'.status = "ok"
              /\ last'.table = "Flowcell") =>
              LET lanes == { l.id : l \in { x \in db["Lane"] : x.flowcell = last'.id } }
              IN /\ \A t \in {"Run", "Lane", "Analyses"} :
                       \A r \in db'[t] : r.flowcell # last'.id
                 /\ \A ll \in db'["LibraryLane"] : ll.lane \notin lanes
      ]_vars

\* C28 case: a Sample was deleted together with a Library of it, a
\* LibraryLane of that Library and an AnalysisOutput, and the
\* DownstreamAnalysis that referred to the Sample was kept with the
\* reference nulled.
C28_Witness ==
    /\ last.op = "delete" /\ last.table = "Sample" /\ last.status = "ok"
    /\ \A t \in {"Library", "LibraryLane", "AnalysisOutput"} :
          \E x \in last.deleted : x[1] = t
    /\ <<"DownstreamAnalysis", 1>> \in last.nulled

\* C28 case: a Flowcell was deleted together with a Run, a Lane, an Analyses
\* row and a LibraryLane of the Lane.
C28_WitnessFlowcell ==
    /\ last.op = "delete" /\ last.table = "Flowcell" /\ last.status = "ok"
    /\ \A t \in {"Run", "Lane", "Analyses", "LibraryLane"} :
          \E x \in last.deleted : x[1] = t

\* C25 as claimed: a submitted form whose label was accepted and that names
\* a project and an organism and nothing else validates.
C25_LabelProjectOrganismSuffice ==
    ( /\ form.bound
      /\ ~HasLabelError(form)
      /\ form.data.project # NULL /\ form.data.organism # NULL
      /\ form.data.sample_type = NULL /\ form.data.specimen_source = NULL )
    => ~Rejected(form)

(***************************************************************************)
(* The other ways a Sample row is written: the edit view, the ORM without  *)
(* a form, and a second request to the creation view.                      *)
(***************************************************************************)

\* SampleUpdateView, POST with one of datas, from the request to the
\* response: SampleForm is bound to the submitted data and a stored Sample; when it validates the
\* row is saved with the submitted values, otherwise the form is rendered
\* back and nothing changes.
SampleUpdateView(datas) ==
    /\ \E s \in db["Sample"], data \in datas :
          LET f == Validated(data, s.id)
              row == [id |-> s.id, label |-> f.cleaned,
                      organism |-> data.organism, project |-> data.project,
                      sample_type |-> data.sample_type,
                      specimen_source |-> data.specimen_source]
          IN IF f.errors = {}
             THEN /\ db' = [db EXCEPT !["Sample"] = (@ \ {s}) \cup {row}]
                  /\ last' = Op("update", "Sample", row, "ok", {}, {})
             ELSE UNCHANGED <<db, last>>
    /\ UNCHANGED <<query, webVars, connVars>>

\* Sample.objects.create(...) with any value, None included, in the four
\* relations.
SampleObjectsCreate(cap, labels) ==
    /\ \E i \in FreeIds("Sample", cap), l \in labels,
          o \in OptIds("Organism"), p \in OptIds("Project"),
          st \in OptIds("SampleType"), ss \in OptIds("SpecimenSource") :
           Insert("Sample", [id |-> i, label |-> l, organism |-> o, project |-> p,
                             sample_type |-> st, specimen_source |-> ss])
    /\ UNCHANGED <<query, webVars, connVars>>

\* A POST to sample_create_view handled by another worker from the request
\* to the redirect, while the request of this worker is wherever it is: the
\* form validates, the row is saved and the mail is sent.
PeerCreate ==
    /\ \E i \in FreeIds("Sample", MaxSamples), data \in ViewData :
          LET f == Validated(data, NULL)
              row == [id |-> i, label |-> f.cleaned,
                      organism |-> data.organism, project |-> data.project,
                      sample_type |-> data.sample_type,
                      specimen_source |-> data.specimen_source]
          IN /\ f.errors = {}
             /\ Insert("Sample", row)
             /\ outbox' = Append(outbox, Mail(row))
    /\ UNCHANGED <<query, form, request, connVars>>

\* The tables a Sample refers to.
SampleParents == { fk.parent : fk \in SampleFKs }

\* Submissions of one new label with each relation chosen or left empty.
SampleData == { d \in ViewData : d.label = <<"A">> }

NextSample ==
    \/ PostOf(SampleData)
    \/ FormSave
    \/ SendMail
    \/ Redirect
    \/ Render
    \/ RequestDone
    \/ SampleUpdateView(SampleData)
    \/ SampleObjectsCreate(MaxSamples, {<<"s">>})
    \/ DeleteIn(SampleParents)

SpecSample == InitLabel /\ [][NextSample]_vars

NextConcurrent ==
    \/ sample_create_view
    \/ RequestDone
    \/ PeerCreate

SpecConcurrent == InitLabel /\ [][NextConcurrent]_vars

C27_LabelsUnique ==
    \A s1, s2 \in db["Sample"] : s1.label = s2.label => s1 = s2

C23_WitnessNotNull ==
    /\ last.op = "create" /\ last.table = "Sample"
    /\ last.status = "IntegrityError"
    /\ last.row.sample_type = NULL
    /\ last.row.organism \in Ids("Organism")
    /\ request.pc = "idle"

\* C23 case: the delete of a SpecimenSource took the Samples that named it
\* along.
C23_WitnessCascade ==
    /\ last.op = "delete" /\ last.table = "SpecimenSource" /\ last.status = "ok"
    /\ \E x \in last.deleted : x[1] = "Sample"

\* C23 case: an edit was saved.
C23_WitnessEdit ==
    /\ last.op = "update" /\ last.table = "Sample" /\ last.status = "ok"
    /\ last.row.label = <<"A">>

(***************************************************************************)
(* The Sample listing and its export: SampleListView and sample_export of  *)
(* core/views.py.  Text is a sequence of characters; a value that may be   *)
(* None (a request parameter, the description column) is the empty set or  *)
(* the set of its one value.                                               *)
(***************************************************************************)
MaxListed == 2    \* Samples in the listed table: ids 1..MaxListed

\* The lower-case form of a character.
fold(c) == CASE c = "A" -> "a" [] c = "B" -> "b" [] OTHER -> c

lower(text) == [i \in 1..Len(text) |-> fold(text[i])]

\* column__icontains=q on a column value that may be NULL: the lower-cased
\* value contains the lower-cased q; NULL matches nothing.
icontains(column, q) ==
    \E text \in column :
        \E i \in 1..(Len(text) - Len(q) + 1) :
            SubSeq(lower(text), i, i + Len(q) - 1) = lower(q)

\* The label of the row of table t that foreign key value k names.
label_of(d, t, k) == { r.label : r \in { x \in d[t] : x.id = k } }

\* SampleListView.get_queryset for request.GET.get('q') = param.
get_queryset(d, param) ==
    IF \E v \in param : v # <<>>
    THEN LET q == CHOOSE v \in param : TRUE
         IN { s \in d["Sample"] :
                \/ icontains({s.label}, q)
                \/ icontains(s.description, q)
                \/ icontains(label_of(d, "Project", s.project), q)
                \/ icontains(label_of(d, "Organism", s.organism), q) }
    ELSE d["Sample"]

\* Variant: the export does not search the description.
export_queryset_NoDescription(d, param) ==
    IF \E v \in param : v # <<>>
    THEN LET q == CHOOSE v \in param : TRUE
         IN { s \in d["Sample"] :
                \/ icontains({s.label}, q)
                \/ icontains(label_of(d, "Project", s.project), q)
                \/ icontains(label_of(d, "Organism", s.organism), q) }
    ELSE d["Sample"]

\* The queryset of sample_export for request.GET.get('q') = param.
export_queryset(d, param) ==
    IF \E v \in param : v # <<>>
    THEN LET q == CHOOSE v \in param : TRUE
         IN { s \in d["Sample"] :
                \/ icontains({s.label}, q)
                \/ icontains(s.description, q)
                \/ icontains(label_of(d, "Project", s.project), q)
                \/ icontains(label_of(d, "Organism", s.organism), q) }
    ELSE d["Sample"]

\* queryset.values('label', 'project__label', 'organism__label') for one row.
values(d, s) ==
    << s.label, CHOOSE l \in label_of(d, "Project", s.project) : TRUE,
       CHOOSE l \in label_of(d, "Organism", s.organism) : TRUE >>

\* One output row per row of the queryset, in primary key order.
RECURSIVE writerows(_, _)
writerows(d, rows) ==
    IF rows = {} THEN <<>>
    ELSE LET s == CHOOSE x \in rows : \A y \in rows : x.id <= y.id
         IN <<values(d, s)>> \o writerows(d, rows \ {s})

Header == <<"Label", "Project", "Organism">>

\* The rows of the file sample_export returns: for 'excel' the sheet of the
\* data frame (the renamed column names over the rows; a frame built from
\* no rows has no columns), otherwise the CSV header and rows.
export_body(d, param, format_) ==
    LET data == writerows(d, export_queryset(d, param))
    IN IF format_ = "excel"
       THEN IF data = <<>> THEN <<>> ELSE <<Header>> \o data
       ELSE <<Header>> \o data

\* What a listing request returned.
Listed(op, param, format_, rows, body) ==
    [op |-> op, q |-> param, format |-> format_, rows |-> rows, body |-> body]

\* The q parameters of the requests: absent, empty, and search words.
Queries == { {}, {<<>>}, {<<"a">>}, {<<"A", "B">>}, {<<"b">>}, {<<"c">>} }

\* GET core:sample_list.
SampleListView ==
    /\ \E param \in Queries :
          query' = Listed("SampleListView", param, "html",
                          get_queryset(db, param), <<>>)
    /\ UNCHANGED <<db, last, webVars, connVars>>

\* GET core:sample_export; the format parameter is lower-cased, and absent
\* means 'csv'.
sample_export ==
    /\ \E param \in Queries, format \in {{}, {"csv"}, {"excel"}, {"EXCEL"}} :
          LET format_ == IF format = {} THEN "csv"
                         ELSE IF format = {"EXCEL"} THEN "excel"
                         ELSE CHOOSE f \in format : TRUE
          IN query' = Listed("sample_export", param, format_,
                             export_queryset(db, param),
                             export_body(db, param, format_))
    /\ UNCHANGED <<db, last, webVars, connVars>>

\* The databases listed: two Organisms, two Projects, and up to MaxListed
\* Samples with or without a description.
ListedDBs ==
    LET rows(i) == { [id |-> i, label |-> l, description |-> ds, organism |-> o,
                      project |-> p, sample_type |-> 1, specimen_source |-> 1] :
                       l \in {<<"a", "B">>, <<"c">>},
                       ds \in {{}, {<<"B", "c">>}}, o \in 1..2, p \in 1..2 }
        samples == { {s} : s \in rows(1) }
                   \cup { {s1, s2} : s1 \in rows(1), s2 \in rows(MaxListed) }
    IN { [t \in Tables |->
            CASE t \in {"Gemstone", "SampleType", "SpecimenSource"} -> { [id |-> 1] }
              [] t = "Organism" -> { [id |-> 1, label |-> <<"a">>],
                                     [id |-> 2, label |-> <<"d">>] }
              [] t = "Project" -> { [id |-> 1, label |-> <<"A", "b">>, gemstone |-> 1],
                                    [id |-> 2, label |-> <<"e">>, gemstone |-> 1] }
              [] t = "Sample" -> S
              [] OTHER -> {}] : S \in samples }

InitListed ==
    /\ db \in ListedDBs
    /\ last = NoOp
    /\ query = NoQuery
    /\ form = NoForm
    /\ Untouched

NextListed ==
    \/ SampleListView
    \/ sample_export

SpecListed == InitListed /\ [][NextListed]_vars

\* q occurs in text as a case-insensitive substring.
Occurs(q, text) ==
    \E i \in 0..(Len(text) - Len(q)) :
        \A j \in 1..Len(q) : fold(text[i + j]) = fold(q[j])

\* The samples of the claim for parameter param: all of them when q is
\* absent or empty, else those with q in the label, the description, the
\* project label or the organism label.
Matching(param) ==
    IF param \in {{}, {<<>>}} THEN db["Sample"]
    ELSE { s \in db["Sample"] :
             \E q \in param :
                \/ Occurs(q, s.label)
                \/ \E text \in s.description : Occurs(q, text)
                \/ \E p \in db["Project"] : p.id = s.project /\ Occurs(q, p.label)
                \/ \E o \in db["Organism"] : o.id = s.organism /\ Occurs(q, o.label) }

\* C22: the list view returns the matching samples; an export has one row
\* per sample the list view returns for the same q, each row the label,
\* project label and organism label of one of them, and no other row; the
\* CSV output starts with the header row.
C22_ExportIsTheListing ==
    /\ query.op = "SampleListView" => query.rows = Matching(query.q)
    /\ query.op = "sample_export" =>
          LET listed == get_queryset(db, query.q)
              data == IF query.body = <<>> THEN <<>> ELSE Tail(query.body)
          IN /\ query.rows = listed
             /\ listed = Matching(query.q)
             /\ Len(data) = Cardinality(listed)
             /\ \A s \in listed : \E i \in 1..Len(data) :
                   data[i] = << s.label,
                                (CHOOSE p \in db["Project"] : p.id = s.project).label,
                                (CHOOSE o \in db["Organism"] : o.id = s.organism).label >>
             /\ query.format = "csv" =>
                   /\ Len(query.body) = 1 + Cardinality(listed)
                   /\ query.body[1] = <<"Label", "Project", "Organism">>

\* C22 case: a CSV export for a q that matches one stored sample through
\* its description only, and not the other stored sample.
C22_Witness ==
    /\ query.op = "sample_export"
    /\ query.format = "csv"
    /\ Cardinality(db["Sample"]) = 2
    /\ Cardinality(query.rows) = 1
    /\ \E s \in query.rows, q \in query.q :
          /\ q # <<>>
          /\ ~Occurs(q, s.label)
          /\ \E text \in s.description : Occurs(q, text)
          /\ \A p \in db["Project"] : ~Occurs(q, p.label)
          /\ \A o \in db["Organism"] : ~Occurs(q, o.label)

\* C22 case: a spreadsheet export with q absent holds every sample.
C22_WitnessExcelAll ==
    /\ query.op = "sample_export"
    /\ query.format = "excel"
    /\ query.q = {}
    /\ Len(query.body) = 3

====
